---- MODULE Spec2Model ----
(***************************************************************************)
(* Model of src/regulations_utils.py (class CommentsDownloader): the       *)
(* header pagination engine gather_headers, the request wrapper            *)
(* get_request_json and the persistence sinks _insert_data/_write_to_csv.  *)
(*                                                                         *)
(* The specifications share the variables:                                 *)
(*   Spec      one run of gather_headers against a static result set       *)
(*   SpecReq   one call of get_request_json against an arbitrary server    *)
(*   SpecSink  a sequence of _insert_data calls on one table               *)
(*   SpecDet   one run of gather_details over a list of identifiers        *)
(*   SpecDup   _is_duplicated_on_server applied to a response body         *)
(*   SpecCsv   a sequence of _write_to_csv calls on one file               *)
(*   SpecWf    one call of a workflow of the public interface              *)
(***************************************************************************)
EXTENDS Integers, Sequences, FiniteSets, TLC

VARIABLES
    \* ---- environment of a gather_headers run
    items,               \* the static result set: lastModifiedDate (UTC instant) of item i, ascending
    fold,                \* how the server reads a wall-clock time that occurs twice:
                         \* "EDT" or "EST", "unset" until the first such time is sent
    outage,              \* consecutive failed get_request_json calls of the outage so far;
                         \* MaxOutage once the outage is over
    \* ---- arguments of gather_headers
    max_items,           \* <<>> for None, <<m>> for an integer
    db_filename,         \* TRUE when a database file name is given
    csv_filename,        \* TRUE when a CSV file name is given
    \* ---- locals of gather_headers
    pc,
    exc,                 \* the exception that ended the run ("" when none)
    n_retrieved,
    prev_query_max_date, \* the cursor: an Eastern wall-clock time
    totalElements,
    page,
    data,                \* the page buffer: sequence of raw items
    r_items,             \* <<>> while unbound, <<response>> afterwards
    retries,
    conn,                \* "none", "open", "closed"
    \* ---- observation of the run
    sent,                \* number of get_request_json calls issued so far
    windows,             \* number of outer-loop iterations entered
    \* ---- sinks
    header_table,        \* rows of the permanent table (set of rows, unique by id)
    tmp,                 \* rows of the staging table "tmp"
    csv_file,            \* the CSV file gather_headers writes: [exists, lines]
    documents_header,    \* rows of the table documents_header
    \* ---- one call of get_request_json
    rq_args,             \* [params, wait_for_rate_limits, skip_duplicates]
    rq_pc,               \* "idle", "loop", "returned", "raised"
    rq_iter,             \* iterations of the attempt loop completed
    rq_hist,             \* the responses received, in order
    rq_sleeps,           \* number of time.sleep(POLL_SECONDS) calls made
    rq_out,              \* [exc, body]: what the call returned or raised
    rq_printed,          \* number of "(Requests left: ...)" lines printed
    \* ---- one run of gather_details
    ids,                 \* the identifier list
    gd_args,             \* [db_filename, csv_filename, insert_every_n_rows, skip_duplicates]
    gd_pc,               \* "idle", "start", "loop", "done", "raised"
    gd_exc,              \* the exception that ended the run ("" when none)
    gd_i,                \* number of identifiers the for loop has taken
    gd_n_retrieved,
    gd_data,             \* the in-memory batch
    gd_conn,             \* "none", "open", "closed"
    gd_r_item,           \* <<>> while unbound, <<body>> afterwards
    gd_skipped,          \* number of "Skipping for ..." lines printed
    gd_kept,             \* positions of ids whose record was retrieved, in order
    gd_flushes,          \* the batches handed to _output_data, in order
    detail_table,        \* rows of the detail table
    detail_csv,          \* the CSV file gather_details writes: [exists, lines]
    \* ---- a sequence of _write_to_csv calls
    n_writes,            \* number of calls made
    csv_data,            \* the data argument of the last call
    \* ---- _is_duplicated_on_server
    dup_body,            \* the response body
    dup_result,          \* <<>> before the call, <<outcome>> after it
    \* ---- further arguments of gather_headers
    data_type,           \* "comments" or "documents"
    id_base,             \* the identifiers of the result set are id_base + 1, id_base + 2, ...
    \* ---- one call of a workflow
    fn,                  \* the function called
    wf_args,             \* its arguments [db_filename, csv_filename]
    wf_sent,             \* requests issued by the workflow itself (object id lookups)
    doc_pc,              \* gather_comments_by_document: "idle", "start", "object_id",
                         \* "headers", "details", "done", "raised"
    doc_exc,
    doc_steps,           \* the steps gather_comments_by_document has performed, in order
    comment_ids,
    dk_pc,               \* gather_comments_by_docket: "idle", "start", "headers", "loop",
                         \* "done", "raised"
    dk_exc,
    document_ids,
    dk_i,                \* number of documents the for loop has taken
    \* ---- the requests of gather_headers
    params,              \* the params argument of gather_headers: a dict
    request,             \* <<>> before the first request, then <<the query parameters sent last>>
    retrieved,           \* identifiers of the items buffered so far in the run
    \* ---- _get_processed_data
    pd_data,             \* the data argument: a list of raw items
    pd_result            \* <<>> before the call, <<rows>> after it

gdVars == <<ids, gd_args, gd_pc, gd_exc, gd_i, gd_n_retrieved, gd_data, gd_conn, gd_r_item,
            gd_skipped, gd_kept, gd_flushes>>
detailSinks == <<detail_table, detail_csv>>
dupVars == <<dup_body, dup_result>>
csvVars == <<n_writes, csv_data>>
wfVars == <<data_type, id_base, fn, wf_args, wf_sent, doc_pc, doc_exc, doc_steps, comment_ids,
            dk_pc, dk_exc, document_ids, dk_i>>
auxVars == <<gdVars, detailSinks, csvVars, dupVars, wfVars>>
parVars == <<params, request>>
procVars == <<pd_data, pd_result>>
obsVars == <<parVars, retrieved, procVars>>

vars == <<items, fold, outage, max_items, db_filename, csv_filename, pc, exc,
          n_retrieved, prev_query_max_date, totalElements, page, data, r_items,
          retries, conn, sent, windows, header_table, tmp, csv_file,
          rq_args, rq_pc, rq_iter, rq_hist, rq_sleeps, rq_out, rq_printed, auxVars,
          obsVars>>

envVars  == <<items, max_items, db_filename, csv_filename>>
sinkVars == <<header_table, tmp, csv_file, documents_header>>
rqVars   == <<rq_args, rq_pc, rq_iter, rq_hist, rq_sleeps, rq_out, rq_printed>>
ghVars   == <<fold, outage, pc, exc, n_retrieved, prev_query_max_date, totalElements,
              page, data, r_items, retries, conn, sent, windows>>

(***************************************************************************)
(* Bounds and program constants                                            *)
(***************************************************************************)
PageSize == 2            \* stands for 'page[size]': 250
MaxPages == 2            \* stands for the 20 pages the API serves per query
MaxTime == 4             \* UTC instants are 1..MaxTime
MaxOutage == 5           \* one outage per run: at most this many calls fail in a row
HourTicks == 2           \* one hour, the daylight-saving shift, in ticks
MaxRetries == 5
WAIT_MINUTES == 20
POLL_SECONDS == 10
STATUS_CODE_OVER_RATE_LIMIT == 429

WindowSize == PageSize * MaxPages
\* result-set sizes: up to one window and one more item
MaxTotal == WindowSize + 1
\* the first instant of standard time: the clocks go back at FallBack
FallBack == MaxTime

Min(a, b) == IF a < b THEN a ELSE b
Last(s) == s[Len(s)]

(***************************************************************************)
(* Time: datetime.fromisoformat(...).astimezone(EASTERN_TIME).strftime     *)
(***************************************************************************)
\* astimezone(America/New_York) followed by strftime without offset: the
\* wall clock is one hour ahead of standard time before the clocks go back.
ToEastern(u) == IF u < FallBack THEN u + HourTicks ELSE u

\* placeholder cursor '1900-01-01 00:00:00'
INITIAL_DATE == 0

\* The server reads filter[lastModifiedDate][ge] as Eastern wall-clock time.
\* A wall-clock time of the repeated hour denotes two instants.
Ambiguous(c) == c >= FallBack /\ c < FallBack + HourTicks

ServerLowerBound(c, f) ==
    IF c < FallBack THEN c - HourTicks
    ELSE IF c >= FallBack + HourTicks THEN c
    ELSE IF f = "EDT" THEN c - HourTicks ELSE c

(***************************************************************************)
(* The listing endpoint: a static result set                               *)
(***************************************************************************)
RECURSIVE SortedSeqs(_, _)
\* the ascending sequences of length n over lo..MaxTime
SortedSeqs(n, lo) ==
    IF n = 0 THEN {<<>>}
    ELSE UNION {{<<t>> \o s : s \in SortedSeqs(n - 1, t)} : t \in lo..MaxTime}

ResultSets == UNION {SortedSeqs(n, 1) : n \in 0..MaxTotal}

\* raw item i of the result set
Item(i) == [id |-> id_base + i, lastModifiedDate |-> items[i]]

\* items matching lastModifiedDate >= cursor, in sort order
Matching(c, f) ==
    LET lb == ServerLowerBound(c, f)
        n  == Cardinality({i \in 1..Len(items) : items[i] >= lb})
    IN  [k \in 1..n |-> Item(Len(items) - n + k)]

CeilDiv(a, b) == (a + b - 1) \div b

\* response of the listing endpoint to page[number]=p
ListResponse(c, p, f) ==
    LET R  == Matching(c, f)
        tp == Min(MaxPages, CeilDiv(Len(R), PageSize))
    IN  [data     |-> SubSeq(R, (p - 1) * PageSize + 1, Min(p * PageSize, Len(R))),
         lastPage |-> p >= tp]

(***************************************************************************)
(* Query parameters: dicts as functions on strings                         *)
(***************************************************************************)
EmptyDict == [k \in {} |-> 0]

\* the caller's mapping is unpacked last
MergeAlt(a, b) ==
    [k \in DOMAIN a \cup DOMAIN b |-> IF k \in DOMAIN a THEN a[k] ELSE b[k]]

\* {**a, **b}: the keys of both, the value of b where both have the key
Merge(a, b) ==
    [k \in DOMAIN a \cup DOMAIN b |-> IF k \in DOMAIN b THEN b[k] ELSE a[k]]

MAX_PAGE_SIZE == 250

Digits == <<"0", "1", "2", "3", "4", "5", "6", "7", "8", "9">>
DigitValue(c) == CHOOSE n \in 0..9 : Digits[n + 1] = c

RECURSIVE Str(_)
\* str(n) for n >= 0: the decimal digits, a text
Str(n) == IF n < 10 THEN <<Digits[n + 1]>> ELSE Str(n \div 10) \o <<Digits[(n % 10) + 1]>>

RECURSIVE IntOf(_)
\* the number a page[number] value denotes to the server
IntOf(t) ==
    IF Len(t) = 1 THEN DigitValue(t[1])
    ELSE 10 * IntOf(SubSeq(t, 1, Len(t) - 1)) + DigitValue(t[Len(t)])

\* lines 104-108: the query parameters get_request_json sends for params p
ListingParams(p) == Merge(p, [k \in {"page[size]"} |-> MAX_PAGE_SIZE])

\* lines 245-250: the params gather_headers passes for a page request
PageParams(p, cursor, pg) ==
    Merge(p, [k \in {"filter[lastModifiedDate][ge]", "page[number]", "sort"} |->
                CASE k = "filter[lastModifiedDate][ge]" -> cursor
                  [] k = "page[number]" -> Str(pg)
                  [] OTHER -> "lastModifiedDate"])

\* the query parameters of a page request as sent
PageRequest(p, cursor, pg) == ListingParams(PageParams(p, cursor, pg))

\* line 166: get_items_count passes params as they are
CountRequest(p) == ListingParams(p)

\* lines 409, 475: the filter a workflow passes
WfParams(dt) ==
    IF dt = "documents" THEN [k \in {"filter[docketId]"} |-> "docket"]
    ELSE [k \in {"filter[commentOnId]"} |-> "object"]

(***************************************************************************)
(* Sinks                                                                   *)
(***************************************************************************)
\* the row re-fetched at the start of a later window is dropped
GetProcessedDataAlt(d) == IF windows > 1 THEN Tail(d) ELSE d

\* _get_processed_data, for items whose attributes are lastModifiedDate
GetProcessedData(d) == [i \in 1..Len(d) |-> d[i]]

RECURSIVE InsertOrIgnoreRec(_, _)
InsertOrIgnoreRec(tbl, rows) ==
    IF rows = <<>> THEN tbl
    ELSE InsertOrIgnoreRec(IF \E x \in tbl : x.id = Head(rows).id
                           THEN tbl ELSE tbl \cup {Head(rows)},
                           Tail(rows))

RECURSIVE InsertOrReplace(_, _)
\* INSERT OR REPLACE: the row of the batch takes the place of the row of the table
InsertOrReplace(tbl, rows) ==
    IF rows = <<>> THEN tbl
    ELSE InsertOrReplace({x \in tbl : x.id # Head(rows).id} \cup {Head(rows)}, Tail(rows))

\* line 876, INSERT OR IGNORE INTO table SELECT ... FROM tmp: a row whose
\* identifier is already in the table is skipped
InsertOrIgnore(tbl, rows) == InsertOrIgnoreRec(tbl, rows)

\* line 897, df.replace(r"\n", " ", regex=True), on one text
ReplaceNewlines(text) == [i \in 1..Len(text) |-> IF text[i] = "\n" THEN " " ELSE text[i]]

\* line 897 on one row; the rows of the model have at most one text field
NormalizeRow(row) ==
    IF "text" \in DOMAIN row THEN [row EXCEPT !.text = ReplaceNewlines(@)] ELSE row

\* the header line with every write
WriteToCsvAlt(f, rows) ==
    [exists |-> TRUE,
     lines  |-> f.lines
                \o <<[header |-> TRUE]>>
                \o [i \in 1..Len(rows) |-> [header |-> FALSE, row |-> NormalizeRow(rows[i])]]]

\* _write_to_csv: the file as the sequence of records written to it; the
\* header line only when the file does not exist yet
WriteToCsv(f, rows) ==
    [exists |-> TRUE,
     lines  |-> f.lines
                \o (IF f.exists THEN <<>> ELSE <<[header |-> TRUE]>>)
                \o [i \in 1..Len(rows) |-> [header |-> FALSE, row |-> NormalizeRow(rows[i])]]]

NoFile == [exists |-> FALSE, lines |-> <<>>]

\* the rows go to the CSV file only
OutputDataAlt(rows) ==
    /\ UNCHANGED <<header_table, tmp, documents_header>>
    /\ IF csv_filename
       THEN csv_file' = WriteToCsv(csv_file, rows)
       ELSE UNCHANGED csv_file

\* _output_data as a state change of the sink variables; the table is
\* data_type + "_header"
OutputData(rows) ==
    /\ IF conn = "open"
       THEN /\ tmp' = rows
            /\ IF data_type = "documents"
               THEN /\ documents_header' = InsertOrIgnore(documents_header, rows)
                    /\ UNCHANGED header_table
               ELSE /\ header_table' = InsertOrIgnore(header_table, rows)
                    /\ UNCHANGED documents_header
       ELSE UNCHANGED <<header_table, tmp, documents_header>>
    /\ IF csv_filename
       THEN csv_file' = WriteToCsv(csv_file, rows)
       ELSE UNCHANGED csv_file

(***************************************************************************)
(* gather_headers                                                          *)
(***************************************************************************)
MaxItemsArgs == {<<>>, <<0>>, <<PageSize + 1>>}

RqIdle ==
    /\ rq_args = [params |-> FALSE, print_remaining_requests |-> FALSE,
                  wait_for_rate_limits |-> FALSE, skip_duplicates |-> FALSE]
    /\ rq_pc = "idle"
    /\ rq_iter = 0
    /\ rq_hist = <<>>
    /\ rq_sleeps = 0
    /\ rq_out = [exc |-> "", body |-> <<>>]
    /\ rq_printed = 0

\* the state before gather_headers is called
GhIdle ==
    /\ fold = "unset"
    /\ outage = 0
    /\ pc = "start"
    /\ exc = ""
    /\ n_retrieved = 0
    /\ prev_query_max_date = INITIAL_DATE
    /\ totalElements = 0
    /\ page = 0
    /\ data = <<>>
    /\ r_items = <<>>
    /\ retries = 0
    /\ conn = "none"
    /\ sent = 0
    /\ windows = 0

\* the state before gather_details is called
GdIdle ==
    /\ ids = <<>>
    /\ gd_args = [db_filename |-> FALSE, csv_filename |-> FALSE,
                  insert_every_n_rows |-> 1, skip_duplicates |-> TRUE]
    /\ gd_pc = "idle"
    /\ gd_exc = ""
    /\ gd_i = 0
    /\ gd_n_retrieved = 0
    /\ gd_data = <<>>
    /\ gd_conn = "none"
    /\ gd_r_item = <<>>
    /\ gd_skipped = 0
    /\ gd_kept = <<>>
    /\ gd_flushes = <<>>

\* an empty detail table and no CSV file
DetailSinksInit ==
    /\ detail_table = {}
    /\ detail_csv = NoFile

CsvIdle ==
    /\ n_writes = 0
    /\ csv_data = <<>>

DupIdle ==
    /\ dup_body = <<>>
    /\ dup_result = <<>>

\* no workflow is called: gather_headers runs on its own, for comments
WfIdle ==
    /\ data_type = "comments"
    /\ id_base = 0
    /\ fn = "none"
    /\ wf_args = [db_filename |-> FALSE, csv_filename |-> FALSE]
    /\ wf_sent = 0
    /\ doc_pc = "idle"
    /\ doc_exc = ""
    /\ doc_steps = <<>>
    /\ comment_ids = <<>>
    /\ dk_pc = "idle"
    /\ dk_exc = ""
    /\ document_ids = <<>>
    /\ dk_i = 0

\* gather_headers is called with params = {}
ParIdle ==
    /\ params = EmptyDict
    /\ request = <<>>
    /\ retrieved = {}

ProcIdle ==
    /\ pd_data = <<>>
    /\ pd_result = <<>>

AuxIdle ==
    /\ GdIdle
    /\ DetailSinksInit
    /\ CsvIdle
    /\ DupIdle
    /\ WfIdle
    /\ ParIdle
    /\ ProcIdle

\* a fresh database (_setup_database) and no CSV file
SinksInit ==
    /\ header_table = {}
    /\ tmp = <<>>
    /\ csv_file = NoFile
    /\ documents_header = {}

Init ==
    /\ items \in ResultSets
    /\ max_items \in MaxItemsArgs
    /\ db_filename \in BOOLEAN
    /\ csv_filename \in BOOLEAN
    /\ GhIdle
    /\ SinksInit
    /\ RqIdle
    /\ AuxIdle

Raise(e) ==
    /\ pc' = "raised"
    /\ exc' = e

\* lines 205-222: the sink check, the initial cursor, the connection
Start ==
    /\ pc = "start"
    /\ IF ~db_filename /\ ~csv_filename
       THEN /\ Raise("ValueError")
            /\ UNCHANGED <<n_retrieved, prev_query_max_date, conn>>
       ELSE /\ pc' = "probe"
            /\ n_retrieved' = 0
            /\ prev_query_max_date' = INITIAL_DATE
            /\ conn' = IF db_filename THEN "open" ELSE "none"
            /\ UNCHANGED exc
    /\ UNCHANGED <<fold, outage, totalElements, page, data, r_items, retries, sent, windows>>
    /\ UNCHANGED <<envVars, sinkVars, rqVars, auxVars>>
    /\ UNCHANGED obsVars

\* no clamp: the target stays the size of the result set
ClampAlt(total) == total

\* the target: totalElements clamped to max_items (lines 228-230)
Clamp(total) ==
    IF max_items # <<>> /\ max_items[1] < total THEN max_items[1] ELSE total

\* a call that succeeds ends the outage
OutageAfterSuccess == IF outage > 0 THEN MaxOutage ELSE 0

\* lines 225-230: the count probe succeeds
CountProbe ==
    /\ pc = "probe"
    /\ sent' = sent + 1
    /\ totalElements' = Clamp(Len(items))
    /\ pc' = "outer"
    /\ UNCHANGED <<fold, outage, exc, n_retrieved, prev_query_max_date, page, data, r_items,
                   retries, conn, windows>>
    /\ UNCHANGED <<envVars, sinkVars, rqVars, auxVars>>
    /\ request' = <<CountRequest(params)>>
    /\ UNCHANGED <<params, retrieved, procVars>>

\* line 225: get_request_json raises inside get_items_count
CountProbeFails ==
    /\ pc = "probe"
    /\ outage < MaxOutage
    /\ outage' = outage + 1
    /\ sent' = sent + 1
    /\ Raise("RequestError")
    /\ UNCHANGED <<fold, n_retrieved, prev_query_max_date, totalElements, page, data, r_items,
                   retries, conn, windows>>
    /\ UNCHANGED <<envVars, sinkVars, rqVars, auxVars>>
    /\ request' = <<CountRequest(params)>>
    /\ UNCHANGED <<params, retrieved, procVars>>

\* the loop guard with <= for <
OuterGuardAlt == n_retrieved <= totalElements

\* line 232
OuterGuard == n_retrieved < totalElements

\* lines 232-236: a new window
EnterOuter ==
    /\ pc = "outer"
    /\ OuterGuard
    /\ page' = 1
    /\ data' = <<>>
    /\ windows' = windows + 1
    /\ pc' = "inner"
    /\ UNCHANGED <<fold, outage, exc, n_retrieved, prev_query_max_date, totalElements, r_items,
                   retries, conn, sent>>
    /\ UNCHANGED <<envVars, sinkVars, rqVars, auxVars>>
    /\ UNCHANGED obsVars

\* lines 285-287: the loop is over
Finish ==
    /\ pc = "outer"
    /\ ~OuterGuard
    /\ conn' = IF conn = "open" THEN "closed" ELSE conn
    /\ pc' = "done"
    /\ UNCHANGED <<fold, outage, exc, n_retrieved, prev_query_max_date, totalElements, page, data,
                   r_items, retries, sent, windows>>
    /\ UNCHANGED <<envVars, sinkVars, rqVars, auxVars>>
    /\ UNCHANGED obsVars

\* the 'or' of line 238 does not read r_items on page 1
NotLastPage == IF page = 1 THEN TRUE ELSE ~r_items[1].lastPage

\* line 238
InnerGuard == IF n_retrieved < totalElements THEN NotLastPage ELSE FALSE

\* lines 238-243: one more page of this window
EnterInner ==
    /\ pc = "inner"
    /\ InnerGuard
    /\ retries' = MaxRetries
    /\ pc' = "retry"
    /\ UNCHANGED <<fold, outage, exc, n_retrieved, prev_query_max_date, totalElements, page, data,
                   r_items, conn, sent, windows>>
    /\ UNCHANGED <<envVars, sinkVars, rqVars, auxVars>>
    /\ UNCHANGED obsVars

\* only the items no earlier response has delivered are counted
AccumulateAlt(r) ==
    IF r = <<>>
    THEN /\ Raise("UnboundLocalError")
         /\ UNCHANGED <<n_retrieved, data, page, retrieved>>
    ELSE /\ retrieved' = retrieved \cup {r[1].data[i].id : i \in 1..Len(r[1].data)}
         /\ n_retrieved' = n_retrieved + Cardinality(retrieved' \ retrieved)
         /\ data' = data \o r[1].data
         /\ page' = page + 1
         /\ pc' = "inner"
         /\ UNCHANGED exc

\* lines 255-257, with the r_items the retry loop left behind
Accumulate(r) ==
    IF r = <<>>
    THEN /\ Raise("UnboundLocalError")
         /\ UNCHANGED <<n_retrieved, data, page, retrieved>>
    ELSE /\ n_retrieved' = n_retrieved + Len(r[1].data)
         /\ data' = data \o r[1].data
         /\ retrieved' = retrieved \cup {r[1].data[i].id : i \in 1..Len(r[1].data)}
         /\ page' = page + 1
         /\ pc' = "inner"
         /\ UNCHANGED exc

\* the readings of cursor c the server may take
Folds(c) == IF Ambiguous(c) /\ fold = "unset" THEN {"EDT", "EST"} ELSE {fold}

\* lines 243-257: the page request returns; the API serves pages 1..MaxPages only
PageSucceeds ==
    /\ pc = "retry"
    /\ retries > 0
    /\ page <= MaxPages
    /\ sent' = sent + 1
    /\ outage' = OutageAfterSuccess
    /\ \E f \in Folds(prev_query_max_date) :
           /\ fold' = f
           /\ r_items' = <<ListResponse(prev_query_max_date, page, f)>>
    /\ Accumulate(r_items')
    /\ UNCHANGED <<prev_query_max_date, totalElements, retries, conn, windows>>
    /\ UNCHANGED <<envVars, sinkVars, rqVars, auxVars>>
    /\ request' = <<PageRequest(params, prev_query_max_date, page)>>
    /\ UNCHANGED <<params, procVars>>

\* lines 243-253: the page request raises and the bare except swallows it
PageFails ==
    /\ pc = "retry"
    /\ retries > 0
    /\ IF page > MaxPages THEN TRUE ELSE outage < MaxOutage
    /\ outage' = IF page > MaxPages THEN outage ELSE outage + 1
    /\ sent' = sent + 1
    /\ retries' = retries - 1
    /\ UNCHANGED <<fold, pc, exc, n_retrieved, prev_query_max_date, totalElements, page, data,
                   r_items, conn, windows>>
    /\ UNCHANGED <<envVars, sinkVars, rqVars, auxVars>>
    /\ request' = <<PageRequest(params, prev_query_max_date, page)>>
    /\ UNCHANGED <<params, retrieved, procVars>>

\* lines 243, 255-257: the retry loop ends with retries = 0 and the code goes on
RetriesExhausted ==
    /\ pc = "retry"
    /\ retries = 0
    /\ Accumulate(r_items)
    /\ UNCHANGED <<fold, outage, prev_query_max_date, totalElements, r_items, retries, conn,
                   sent, windows>>
    /\ UNCHANGED <<envVars, sinkVars, rqVars, auxVars>>
    /\ UNCHANGED <<parVars, procVars>>

\* lines 269-270: the last record's lastModifiedDate as Eastern wall-clock time
NextCursor(r) == ToEastern(Last(r.data).lastModifiedDate)

\* lines 268-277: the window is over: move the cursor, write the buffer
WindowEnd ==
    /\ pc = "inner"
    /\ ~InnerGuard
    /\ IF r_items[1].data = <<>>
       THEN /\ Raise("IndexError")
            /\ UNCHANGED <<prev_query_max_date, data, sinkVars>>
       ELSE /\ prev_query_max_date' = NextCursor(r_items[1])
            /\ data' = GetProcessedData(data)
            /\ OutputData(data')
            /\ pc' = "outer"
            /\ UNCHANGED exc
    /\ UNCHANGED <<fold, outage, n_retrieved, totalElements, page, r_items, retries, conn,
                   sent, windows>>
    /\ UNCHANGED <<envVars, rqVars, auxVars>>
    /\ UNCHANGED obsVars

Next ==
    \/ Start
    \/ CountProbe
    \/ CountProbeFails
    \/ EnterOuter
    \/ Finish
    \/ EnterInner
    \/ PageSucceeds
    \/ PageFails
    \/ RetriesExhausted
    \/ WindowEnd

Spec == Init /\ [][Next]_vars

\* params arguments of a caller: none, a filter of the caller's own, and
\* values for every key gather_headers and get_request_json set themselves
CallerParams ==
    {EmptyDict,
     [k \in {"filter[postedDate][ge]"} |-> 1],
     [k \in {"filter[lastModifiedDate][ge]", "page[number]", "page[size]", "sort"} |->
        CASE k = "filter[lastModifiedDate][ge]" -> MaxTime
          [] k = "page[number]" -> <<"7">>
          [] k = "page[size]" -> 5
          [] OTHER -> "postedDate"]}

\* result sets of more than one window, over the last two instants
ParResultSets == SortedSeqs(MaxTotal, MaxTime - 1)

\* a row the table holds before the run: the identifier of the first item of
\* the result set, with an older lastModifiedDate
PreRow == [id |-> 1, lastModifiedDate |-> 0]

\* gather_headers called with a params argument, a CSV file and possibly a
\* database, whose table is empty or holds PreRow
InitPar ==
    /\ items \in ParResultSets
    /\ max_items = <<>>
    /\ db_filename \in BOOLEAN
    /\ csv_filename = TRUE
    /\ params \in CallerParams
    /\ request = <<>>
    /\ retrieved = {}
    /\ GhIdle
    /\ header_table \in (IF db_filename THEN {{}, {PreRow}} ELSE {{}})
    /\ tmp = <<>>
    /\ csv_file = NoFile
    /\ documents_header = {}
    /\ RqIdle
    /\ GdIdle
    /\ DetailSinksInit
    /\ CsvIdle
    /\ DupIdle
    /\ WfIdle
    /\ ProcIdle

NextPar == Next

SpecPar == InitPar /\ [][NextPar]_vars

\* no run enters more windows or counts more pages than this: every page
\* counted and every window that ends adds an item to n_retrieved
MaxWindows == MaxTotal + 1

\* The run as a sequential program that keeps running: every request returns
\* or raises, and the step that is enabled is eventually taken.
NextLive == Next /\ windows' <= MaxWindows /\ page' <= MaxWindows + 1

\* result sets of every size up to MaxTotal over the last two instants, one
\* before and one after the clocks go back
LiveResultSets == UNION {SortedSeqs(n, MaxTime - 1) : n \in 0..MaxTotal}

\* gather_headers called with a CSV file and no max_items: neither the sinks
\* nor a smaller target keep a run from ending
InitLive ==
    /\ items \in LiveResultSets
    /\ max_items = <<>>
    /\ db_filename = FALSE
    /\ csv_filename = TRUE
    /\ GhIdle
    /\ SinksInit
    /\ RqIdle
    /\ AuxIdle

SpecLive == InitLive /\ [][NextLive]_vars /\ WF_vars(NextLive)

(***************************************************************************)
(* get_request_json                                                        *)
(***************************************************************************)
\* one attempt more
MaxAttemptsAlt == (60 \div WAIT_MINUTES) + 3

\* line 142: range(1, int(60 / WAIT_MINUTES) + 3)
MaxAttempts == (60 \div WAIT_MINUTES) + 2

\* line 139: range(int(WAIT_MINUTES * 60 / POLL_SECONDS))
WaitIterations == (WAIT_MINUTES * 60) \div POLL_SECONDS

Statuses == {200, 202, 404, STATUS_CODE_OVER_RATE_LIMIT, 500}

StatusText(st) ==
    CASE st = 200 -> "200" [] st = 202 -> "202" [] st = 404 -> "404"
      [] st = STATUS_CODE_OVER_RATE_LIMIT -> "429" [] st = 500 -> "500"

\* Texts are sequences of characters.
\* "Incorrect result size", the literal of line 791
DupPrefix == <<"I", "n", "c", "o", "r", "r", "e", "c", "t", " ",
               "r", "e", "s", "u", "l", "t", " ", "s", "i", "z", "e">>
\* the slice bound of line 791: detail[:21]
SliceLen == 21
\* error details
DupDetail == DupPrefix \o <<" ", "o", "f", " ", "2">>
OtherDetail == <<"N", "o", "t", " ", "f", "o", "u", "n", "d">>

\* seq[:n]
Take(seq, n) == SubSeq(seq, 1, Min(n, Len(seq)))

\* the test without the status
IsDuplicatedOnServerAlt(body) ==
    IF "errors" \in DOMAIN body
    THEN Take(body.errors[1].detail, SliceLen) = DupPrefix
    ELSE FALSE

\* lines 789-791
IsDuplicatedOnServer(body) ==
    IF "errors" \in DOMAIN body
    THEN /\ body.errors[1].status = "500"
         /\ Take(body.errors[1].detail, SliceLen) = DupPrefix
    ELSE FALSE

\* the X-RateLimit-Remaining header: <<>> when the response has none, <<n>>
\* for the value n
Quotas == {<<>>, <<5>>, <<55>>, <<900>>}

\* the header is read from a 200 answer only; the other answers carry one value
QuotasOf(st) == IF st = 200 THEN Quotas ELSE {<<0>>}

\* The bodies are JSON. Body k of a call is tagged k. An error status comes
\* with an 'errors' list that repeats the status; other statuses carry data.
Responses(k) ==
    UNION {{[status |-> st, quota |-> q, body |-> [data |-> "item", seq |-> k]] :
               q \in QuotasOf(st)} : st \in {st \in Statuses : st < 400}}
    \cup
    {[status |-> st, quota |-> <<0>>,
      body |-> [errors |-> <<[status |-> StatusText(st), detail |-> d]>>, seq |-> k]] :
        st \in {st \in Statuses : st >= 400}, d \in {DupDetail, OtherDetail}}

\* requests.Response.raise_for_status raises for 4xx and 5xx only
RaisesForStatus(st) == st >= 400 /\ st < 600

\* the test of line 123 without the opt-in
RateLimitedAlt(resp, args) == resp.status = STATUS_CODE_OVER_RATE_LIMIT

\* line 123
RateLimited(resp, args) ==
    resp.status = STATUS_CODE_OVER_RATE_LIMIT /\ args.wait_for_rate_limits

\* line 114: r.headers['X-RateLimit-Remaining'] of a response without the header
HeaderMissing(resp) == resp.quota = <<>>

\* lines 115-118: the line "(Requests left: n)" is printed
QuotaPrinted(n, args) ==
    \/ args.print_remaining_requests
    \/ n < 10
    \/ (n <= 100 /\ n % 10 = 0)
    \/ (n % 100 = 0 /\ n < 1000)

\* lines 112-133: what poll_for_response does with the response
\*   "success"  return [True, json]         "wait"   else_func(), return [False, json]
\*   "skip"     return [False, json]        "raise"  raise_for_status() raises
\*   "fall"     raise_for_status() returns, return [False, json]
\*   "keyerror" r.headers['X-RateLimit-Remaining'] raises
PollBranch(resp, args) ==
    IF resp.status = 200 THEN (IF HeaderMissing(resp) THEN "keyerror" ELSE "success")
    ELSE IF RateLimited(resp, args) THEN "wait"
    ELSE IF IsDuplicatedOnServer(resp.body) /\ args.skip_duplicates THEN "skip"
    ELSE IF RaisesForStatus(resp.status) THEN "raise"
    ELSE "fall"

\* line 145
ReturnsBody(branch, resp, args) ==
    branch = "success" \/ (IsDuplicatedOnServer(resp.body) /\ args.skip_duplicates)

\* lines 142-146: one iteration of the attempt loop: one request, the
\* cool-down of wait_for_requests when rate limited, then return, raise or go on
Poll ==
    /\ rq_pc = "loop"
    /\ rq_iter < MaxAttempts
    /\ \E resp \in Responses(Len(rq_hist) + 1) :
         LET branch == PollBranch(resp, rq_args) IN
           /\ rq_hist' = Append(rq_hist, resp)
           /\ rq_sleeps' = IF branch = "wait" THEN rq_sleeps + WaitIterations ELSE rq_sleeps
           /\ rq_iter' = rq_iter + 1
           /\ rq_printed' = IF branch = "success"
                            THEN (IF QuotaPrinted(resp.quota[1], rq_args)
                                  THEN rq_printed + 1 ELSE rq_printed)
                            ELSE rq_printed
           /\ IF branch = "raise"
              THEN /\ rq_pc' = "raised"
                   /\ rq_out' = [exc |-> "HTTPError", body |-> resp.body]
              ELSE IF branch = "keyerror"
              THEN /\ rq_pc' = "raised"
                   /\ rq_out' = [exc |-> "KeyError", body |-> <<>>]
              ELSE IF ReturnsBody(branch, resp, rq_args)
              THEN /\ rq_pc' = "returned"
                   /\ rq_out' = [exc |-> "", body |-> resp.body]
              ELSE UNCHANGED <<rq_pc, rq_out>>
    /\ UNCHANGED <<rq_args, envVars, sinkVars, ghVars, auxVars>>
    /\ UNCHANGED obsVars

\* lines 148-149: the loop is over
Exhausted ==
    /\ rq_pc = "loop"
    /\ rq_iter >= MaxAttempts
    /\ rq_pc' = "raised"
    /\ rq_out' = [exc |-> "RuntimeError", body |-> Last(rq_hist).body]
    /\ UNCHANGED <<rq_args, rq_iter, rq_hist, rq_sleeps, rq_printed, envVars, sinkVars, ghVars, auxVars>>
    /\ UNCHANGED obsVars

EnvIdle ==
    /\ items = <<>>
    /\ max_items = <<>>
    /\ db_filename = FALSE
    /\ csv_filename = FALSE

InitReq ==
    /\ rq_args \in [params : BOOLEAN, print_remaining_requests : BOOLEAN,
                     wait_for_rate_limits : BOOLEAN, skip_duplicates : BOOLEAN]
    /\ rq_pc = "loop"
    /\ rq_iter = 0
    /\ rq_hist = <<>>
    /\ rq_sleeps = 0
    /\ rq_out = [exc |-> "", body |-> <<>>]
    /\ rq_printed = 0
    /\ AuxIdle
    /\ EnvIdle
    /\ GhIdle
    /\ SinksInit

NextReq ==
    \/ Poll
    \/ Exhausted

SpecReq == InitReq /\ [][NextReq]_vars

(***************************************************************************)
(* _insert_data on one table                                               *)
(***************************************************************************)
MaxBatch == 2            \* rows per batch

SinkRows == [id : 1..3, lastModifiedDate : 1..2]

Batches == UNION {[1..n -> SinkRows] : n \in 1..MaxBatch}

\* lines 871-877: stage the batch in tmp, insert or ignore, commit
InsertData ==
    /\ \E batch \in Batches :
         /\ tmp' = batch
         /\ header_table' = InsertOrIgnore(header_table, batch)
    /\ UNCHANGED <<csv_file, documents_header, envVars, rqVars, ghVars, auxVars>>
    /\ UNCHANGED obsVars

InitSink ==
    /\ SinksInit
    /\ EnvIdle
    /\ GhIdle
    /\ RqIdle
    /\ AuxIdle

NextSink == InsertData

SpecSink == InitSink /\ [][NextSink]_vars

(***************************************************************************)
(* gather_details                                                          *)
(***************************************************************************)
MaxIds == 4              \* identifiers per list
MaxEvery == 2            \* insert_every_n_rows is 0..MaxEvery

\* the item the detail endpoint holds for an identifier
Detail(id) == [id |-> id]

\* the body the server sends for an identifier that denotes several comments
DupBody == [errors |-> <<[status |-> "500", detail |-> DupDetail]>>]

\* What get_request_json(url, wait_for_rate_limits=True, skip_duplicates=sd)
\* does for one identifier: it returns the item, it meets the duplicate
\* anomaly (returned with sd, raised as an HTTP error without), or it raises.
DetailOutcomes(id, sd) ==
    {[exc |-> "", body |-> [data |-> Detail(id)]],
     [exc |-> IF sd THEN "" ELSE "HTTPError", body |-> DupBody],
     [exc |-> "RuntimeError", body |-> <<>>]}

\* _output_data(data, table_name=data_type + "_detail", conn, cur, csv_filename)
OutputDetail(rows) ==
    /\ IF gd_conn = "open"
       THEN /\ tmp' = rows
            /\ detail_table' = InsertOrIgnore(detail_table, rows)
       ELSE UNCHANGED <<tmp, detail_table>>
    /\ IF gd_args.csv_filename
       THEN detail_csv' = WriteToCsv(detail_csv, rows)
       ELSE UNCHANGED detail_csv

\* lines 311-330: the sink check, the counters, the connection
DetailsStart ==
    /\ gd_pc = "start"
    /\ IF ~gd_args.db_filename /\ ~gd_args.csv_filename
       THEN /\ gd_pc' = "raised"
            /\ gd_exc' = "ValueError"
            /\ UNCHANGED <<gd_n_retrieved, gd_data, gd_conn>>
       ELSE /\ gd_pc' = "loop"
            /\ gd_n_retrieved' = 0
            /\ gd_data' = <<>>
            /\ gd_conn' = IF gd_args.db_filename THEN "open" ELSE "none"
            /\ UNCHANGED gd_exc
    /\ UNCHANGED <<ids, gd_args, gd_i, gd_r_item, gd_skipped, gd_kept, gd_flushes>>
    /\ UNCHANGED <<detailSinks, csvVars, dupVars, wfVars, envVars, sinkVars, rqVars, ghVars>>
    /\ UNCHANGED obsVars

\* the flush test on the size of the batch, one record late
FlushDueAlt(n, every) == n > 0 /\ (n % every) = 1 /\ n > every

\* line 344; every is positive
FlushDue(n, every) == n > 0 /\ (n % every) = 0

\* the skipped identifier is counted
SkipAlt ==
    /\ gd_n_retrieved' = gd_n_retrieved + 1
    /\ gd_skipped' = gd_skipped + 1
    /\ UNCHANGED <<gd_pc, gd_exc, gd_data, gd_kept, gd_flushes, detailSinks, tmp>>

\* lines 337-339: continue
Skip ==
    /\ gd_skipped' = gd_skipped + 1
    /\ UNCHANGED <<gd_pc, gd_exc, gd_n_retrieved, gd_data, gd_kept, gd_flushes, detailSinks, tmp>>

\* the exception ends the run after the batch in memory is written
FetchRaisesAlt(e) ==
    /\ gd_pc' = "raised"
    /\ gd_exc' = e
    /\ gd_flushes' = IF gd_data = <<>> THEN gd_flushes ELSE Append(gd_flushes, gd_data)
    /\ IF gd_data = <<>> THEN UNCHANGED <<detailSinks, tmp>> ELSE OutputDetail(gd_data)
    /\ UNCHANGED <<gd_n_retrieved, gd_data, gd_skipped, gd_kept>>

\* lines 333-335: get_request_json raises and nothing catches the exception
FetchRaises(e) ==
    /\ gd_pc' = "raised"
    /\ gd_exc' = e
    /\ UNCHANGED <<gd_n_retrieved, gd_data, gd_skipped, gd_kept, gd_flushes, detailSinks, tmp>>

\* lines 341-351: count the item, append it, flush when the count is a
\* multiple of insert_every_n_rows
Keep(item) ==
    LET every == gd_args.insert_every_n_rows
        batch == GetProcessedData(Append(gd_data, item))
    IN  /\ gd_n_retrieved' = gd_n_retrieved + 1
        /\ gd_kept' = Append(gd_kept, gd_i + 1)
        /\ UNCHANGED gd_skipped
        /\ IF every = 0
           THEN /\ gd_pc' = "raised"
                /\ gd_exc' = "ZeroDivisionError"
                /\ gd_data' = Append(gd_data, item)
                /\ UNCHANGED <<gd_flushes, detailSinks, tmp>>
           ELSE IF FlushDue(gd_n_retrieved', every)
           THEN /\ gd_flushes' = Append(gd_flushes, batch)
                /\ OutputDetail(batch)
                /\ gd_data' = <<>>
                /\ UNCHANGED <<gd_pc, gd_exc>>
           ELSE /\ gd_data' = Append(gd_data, item)
                /\ UNCHANGED <<gd_pc, gd_exc, gd_flushes, detailSinks, tmp>>

\* lines 332-351: one iteration of the for loop
DetailFetch ==
    /\ gd_pc = "loop"
    /\ gd_i < Len(ids)
    /\ gd_i' = gd_i + 1
    /\ \E out \in DetailOutcomes(ids[gd_i + 1], gd_args.skip_duplicates) :
         /\ gd_r_item' = IF out.exc # "" THEN gd_r_item ELSE <<out.body>>
         /\ IF out.exc # "" THEN FetchRaises(out.exc)
            ELSE IF gd_args.skip_duplicates /\ IsDuplicatedOnServer(out.body) THEN Skip
            ELSE Keep(out.body.data)
    /\ UNCHANGED <<ids, gd_args, gd_conn, csvVars, dupVars, wfVars>>
    /\ UNCHANGED <<envVars, header_table, csv_file, documents_header, rqVars, ghVars>>
    /\ UNCHANGED obsVars

\* lines 353-363: the final batch, the connection, the report
DetailsFinish ==
    /\ gd_pc = "loop"
    /\ gd_i = Len(ids)
    /\ IF Len(gd_data) > 0
       THEN /\ gd_data' = GetProcessedData(gd_data)
            /\ gd_flushes' = Append(gd_flushes, gd_data')
            /\ OutputDetail(gd_data')
       ELSE UNCHANGED <<gd_data, gd_flushes, detailSinks, tmp>>
    /\ gd_conn' = IF gd_conn = "open" THEN "closed" ELSE gd_conn
    /\ gd_pc' = "done"
    /\ UNCHANGED <<ids, gd_args, gd_exc, gd_i, gd_n_retrieved, gd_r_item, gd_skipped, gd_kept>>
    /\ UNCHANGED <<csvVars, dupVars, wfVars>>
    /\ UNCHANGED <<envVars, header_table, csv_file, documents_header, rqVars, ghVars>>
    /\ UNCHANGED obsVars

IdLists == UNION {[1..n -> 1..2] : n \in 0..MaxIds}

InitDet ==
    /\ ids \in IdLists
    /\ gd_args \in [db_filename : BOOLEAN, csv_filename : BOOLEAN,
                    insert_every_n_rows : 0..MaxEvery, skip_duplicates : BOOLEAN]
    /\ gd_pc = "start"
    /\ gd_exc = ""
    /\ gd_i = 0
    /\ gd_n_retrieved = 0
    /\ gd_data = <<>>
    /\ gd_conn = "none"
    /\ gd_r_item = <<>>
    /\ gd_skipped = 0
    /\ gd_kept = <<>>
    /\ gd_flushes = <<>>
    /\ DetailSinksInit
    /\ CsvIdle
    /\ DupIdle
    /\ EnvIdle
    /\ GhIdle
    /\ SinksInit
    /\ RqIdle
    /\ WfIdle
    /\ ParIdle
    /\ ProcIdle

NextDet ==
    \/ DetailsStart
    \/ DetailFetch
    \/ DetailsFinish

SpecDet == InitDet /\ [][NextDet]_vars

(***************************************************************************)
(* _is_duplicated_on_server on its own                                     *)
(***************************************************************************)
\* detail texts: the literal, the literal with more text, the literal cut
\* short, with another last character, in lower case, after other text, the
\* empty text and an unrelated text
DetailTexts ==
    {DupPrefix,
     DupDetail,
     Take(DupPrefix, SliceLen - 1),
     Take(DupPrefix, SliceLen - 1) \o <<"d">>,
     <<"i">> \o Tail(DupPrefix),
     <<" ">> \o DupPrefix,
     <<>>,
     OtherDetail}

ErrorEntries == [status : {"500", "404", "429", "200"}, detail : DetailTexts]

\* response bodies: without 'errors', and with an 'errors' list of 0, 1 or 2
\* entries
DupBodies ==
    {[data |-> "item"], [meta |-> "item"]}
    \cup {[errors |-> <<>>]}
    \cup {[errors |-> <<e>>] : e \in ErrorEntries}
    \cup {[errors |-> <<e, [status |-> "500", detail |-> DupDetail]>>] : e \in ErrorEntries}

\* lines 789-791 as a call: errors[0] of an empty list raises IndexError
DupCall ==
    /\ dup_result = <<>>
    /\ dup_result' =
          IF "errors" \in DOMAIN dup_body
          THEN (IF dup_body.errors = <<>> THEN <<"IndexError">>
                ELSE IF IsDuplicatedOnServer(dup_body) THEN <<"true">> ELSE <<"false">>)
          ELSE (IF IsDuplicatedOnServer(dup_body) THEN <<"true">> ELSE <<"false">>)
    /\ UNCHANGED <<dup_body, gdVars, detailSinks, csvVars, wfVars, envVars, sinkVars, rqVars, ghVars>>
    /\ UNCHANGED obsVars

InitDup ==
    /\ dup_body \in DupBodies
    /\ dup_result = <<>>
    /\ GdIdle
    /\ DetailSinksInit
    /\ CsvIdle
    /\ EnvIdle
    /\ GhIdle
    /\ SinksInit
    /\ RqIdle
    /\ WfIdle
    /\ ParIdle
    /\ ProcIdle

NextDup == DupCall

SpecDup == InitDup /\ [][NextDup]_vars

(***************************************************************************)
(* _write_to_csv on one file                                               *)
(***************************************************************************)
MaxWrites == 2           \* calls of _write_to_csv

\* field values: without a line break, with a line feed, with a carriage
\* return and a line feed
FieldTexts == {<<"a">>, <<"a", "\n", "b">>, <<"a", "\r", "\n", "b">>}

CsvBatches == UNION {[1..n -> [id : {1}, text : FieldTexts]] : n \in 1..MaxBatch}

\* lines 894-904: one call on a batch
WriteCsv ==
    /\ n_writes < MaxWrites
    /\ n_writes' = n_writes + 1
    /\ \E batch \in CsvBatches :
         /\ csv_data' = batch
         /\ csv_file' = WriteToCsv(csv_file, batch)
    /\ UNCHANGED <<header_table, tmp, documents_header, gdVars, detailSinks, dupVars, wfVars>>
    /\ UNCHANGED <<envVars, rqVars, ghVars>>
    /\ UNCHANGED obsVars

InitCsv ==
    /\ CsvIdle
    /\ SinksInit
    /\ GdIdle
    /\ DetailSinksInit
    /\ DupIdle
    /\ EnvIdle
    /\ GhIdle
    /\ RqIdle
    /\ WfIdle
    /\ ParIdle
    /\ ProcIdle

NextCsv == WriteCsv

SpecCsv == InitCsv /\ [][NextCsv]_vars

(***************************************************************************)
(* _get_processed_data                                                     *)
(***************************************************************************)
ProcMaxItems == 2        \* items per batch

\* A raw item is [id, attributes]; attributes is a dict. A text is a sequence
\* of characters. An attribute value is [list, parts]: a string is
\* [list |-> FALSE, parts |-> <<text>>], a list of strings is
\* [list |-> TRUE, parts |-> <<text, ...>>].
StrValue(t) == [list |-> FALSE, parts |-> <<t>>]
ListValue(ts) == [list |-> TRUE, parts |-> ts]

\* line 841
ExcludedCols == {"id", "displayProperties", "highlightedContent", "fileFormats"}

\* the columns of every item of its own
ColsAlt(d, item) == DOMAIN item.attributes \ ExcludedCols

\* lines 840-841: the columns come from the first item; item is the item at hand
Cols(d, item) == DOMAIN d[1].attributes \ ExcludedCols

RECURSIVE JoinSpace(_)
\* ' '.join(v)
JoinSpace(ts) ==
    IF ts = <<>> THEN <<>>
    ELSE IF Len(ts) = 1 THEN ts[1]
    ELSE ts[1] \o <<" ">> \o JoinSpace(Tail(ts))

\* line 845: ' '.join(v) if type(v) == list else v
Flatten(v) == IF v.list THEN StrValue(JoinSpace(v.parts)) ELSE v

\* gather_headers line 218, gather_details: the name of the id column
IdCol(dt) == IF dt = "documents" THEN "documentId" ELSE "commentId"

\* lines 843-849: one row
ProcessItem(d, item, id_col) ==
    LET keep == DOMAIN item.attributes \cap Cols(d, item)
        out  == [k \in keep |-> Flatten(item.attributes[k])]
    IN  [k \in keep \cup {id_col} |-> IF k = id_col THEN item.id ELSE out[k]]

\* _get_processed_data(data, id_col)
ProcessedData(d, id_col) == [i \in 1..Len(d) |-> ProcessItem(d, d[i], id_col)]

AttrKeys == {"title", "displayProperties", "agencies"}
AttrValues == {StrValue(<<"a">>), ListValue(<<<<"a">>, <<"b", "c">>>>)}
AttrDicts == UNION {[ks -> AttrValues] : ks \in SUBSET AttrKeys}

\* the batches handed to _get_processed_data are not empty; item i has identifier i
RawBatches ==
    UNION {{[i \in 1..n |-> [id |-> i, attributes |-> a[i]]] : a \in [1..n -> AttrDicts]} :
              n \in 1..ProcMaxItems}

\* line 272 or 347: data = self._get_processed_data(data, id_col)
GetProcessed ==
    /\ pd_result = <<>>
    /\ pd_result' = <<ProcessedData(pd_data, IdCol(data_type))>>
    /\ UNCHANGED <<pd_data, parVars, retrieved>>
    /\ UNCHANGED <<envVars, sinkVars, rqVars, ghVars, auxVars>>

InitProc ==
    /\ pd_data \in RawBatches
    /\ pd_result = <<>>
    /\ data_type \in {"comments", "documents"}
    /\ id_base = 0
    /\ fn = "none"
    /\ wf_args = [db_filename |-> FALSE, csv_filename |-> FALSE]
    /\ wf_sent = 0
    /\ doc_pc = "idle"
    /\ doc_exc = ""
    /\ doc_steps = <<>>
    /\ comment_ids = <<>>
    /\ dk_pc = "idle"
    /\ dk_exc = ""
    /\ document_ids = <<>>
    /\ dk_i = 0
    /\ GdIdle
    /\ DetailSinksInit
    /\ CsvIdle
    /\ DupIdle
    /\ ParIdle
    /\ EnvIdle
    /\ GhIdle
    /\ SinksInit
    /\ RqIdle

NextProc == GetProcessed

SpecProc == InitProc /\ [][NextProc]_vars

(***************************************************************************)
(* The workflows: gather_comments_by_document, gather_comments_by_docket   *)
(***************************************************************************)
WfMaxItems == 2          \* comments of a document
WfMaxDocs == 1           \* documents of a docket
DocMaxItems == 3         \* comments of a document that is asked for directly
\* default of insert_every_n_rows (line 290)
DEFAULT_INSERT_EVERY == 500

\* the result sets of the listings a workflow runs: all items share a timestamp
WfResultSets(n) == UNION {SortedSeqs(k, MaxTime) : k \in 0..n}

\* list(set(ids)): the distinct values in an order the runtime chooses
ListOfSet(S) ==
    {f \in [1..Cardinality(S) -> S] : \A i, j \in 1..Cardinality(S) : f[i] = f[j] => i = j}

\* the identifiers as the file lists them, repeats included
IdsFromCsvAlt(f) ==
    LET rows == SelectSeq(f.lines, LAMBDA l : ~l.header)
    IN  {[i \in 1..Len(rows) |-> rows[i].row.id]}

\* get_ids_from_csv(temp_filename, data_type, unique=True) on the file of gather_headers
IdsFromCsv(f) == ListOfSet({f.lines[i].row.id : i \in {j \in 1..Len(f.lines) : ~f.lines[j].header}})

\* a call of gather_headers(data_type=dt, params, db_filename=db_filename,
\* csv_filename=temp_filename): the server's result set for the query, the
\* arguments, a temporary file name not in use, fresh locals
CallGatherHeaders(dt, base, n) ==
    /\ items' \in WfResultSets(n)
    /\ max_items' = <<>>
    /\ db_filename' = wf_args.db_filename
    /\ csv_filename' = TRUE
    /\ data_type' = dt
    /\ id_base' = base
    /\ csv_file' = NoFile
    /\ pc' = "start"
    /\ exc' = ""
    /\ n_retrieved' = 0
    /\ prev_query_max_date' = INITIAL_DATE
    /\ totalElements' = 0
    /\ page' = 0
    /\ data' = <<>>
    /\ r_items' = <<>>
    /\ retries' = 0
    /\ conn' = "none"
    /\ windows' = 0
    /\ params' = WfParams(dt)
    /\ request' = <<>>
    /\ retrieved' = {}

\* a call of gather_details("comments", list, db_filename=db_filename,
\* csv_filename=csv_filename)
CallGatherDetails(list) ==
    /\ ids' = list
    /\ gd_args' = [db_filename |-> wf_args.db_filename, csv_filename |-> wf_args.csv_filename,
                   insert_every_n_rows |-> DEFAULT_INSERT_EVERY, skip_duplicates |-> TRUE]
    /\ gd_pc' = "start"
    /\ gd_exc' = ""
    /\ gd_i' = 0
    /\ gd_n_retrieved' = 0
    /\ gd_data' = <<>>
    /\ gd_conn' = "none"
    /\ gd_r_item' = <<>>
    /\ gd_skipped' = 0
    /\ gd_kept' = <<>>
    /\ gd_flushes' = <<>>

\* _get_comment_count(csv_filename, db_filename, column, value): a query when
\* there is a database, else get_ids_from_csv(csv_filename), which opens the file
CommentCountRaises == ~wf_args.db_filename /\ ~detail_csv.exists

\* the sink check after the first request
DocStartAlt ==
    /\ doc_pc = "start"
    /\ wf_sent' = wf_sent + 1
    /\ IF ~wf_args.db_filename /\ ~wf_args.csv_filename
       THEN /\ doc_pc' = "raised"
            /\ doc_exc' = "ValueError"
       ELSE /\ doc_pc' = "object_id"
            /\ UNCHANGED doc_exc
    /\ doc_steps' = <<>>
    /\ UNCHANGED <<data_type, id_base, fn, wf_args, comment_ids, dk_pc, dk_exc, document_ids, dk_i>>
    /\ UNCHANGED <<envVars, sinkVars, rqVars, ghVars, gdVars, detailSinks, csvVars, dupVars>>
    /\ UNCHANGED obsVars

\* lines 385-386
DocStart ==
    /\ doc_pc = "start"
    /\ IF ~wf_args.db_filename /\ ~wf_args.csv_filename
       THEN /\ doc_pc' = "raised"
            /\ doc_exc' = "ValueError"
       ELSE /\ doc_pc' = "object_id"
            /\ UNCHANGED doc_exc
    /\ doc_steps' = <<>>
    /\ UNCHANGED <<data_type, id_base, fn, wf_args, wf_sent, comment_ids, dk_pc, dk_exc,
                   document_ids, dk_i>>
    /\ UNCHANGED <<envVars, sinkVars, rqVars, ghVars, gdVars, detailSinks, csvVars, dupVars>>
    /\ UNCHANGED obsVars

\* the identifiers of the comments of the document the loop of
\* gather_comments_by_docket is at start above those of every other document
CommentIdBase == IF dk_pc = "loop" THEN document_ids[dk_i] * (WfMaxItems + 1) ELSE 0

\* how many comments the document at hand may have
CommentsBound == IF dk_pc = "loop" THEN WfMaxItems ELSE DocMaxItems

\* lines 428-429, 388-397, 404-412: the object id is looked up, then
\* get_comment_ids calls gather_headers
DocObjectId ==
    /\ doc_pc = "object_id"
    /\ wf_sent' = wf_sent + 1
    /\ outage' = OutageAfterSuccess
    /\ doc_steps' = <<"object_id", "headers">>
    /\ doc_pc' = "headers"
    /\ CallGatherHeaders("comments", CommentIdBase, CommentsBound)
    /\ UNCHANGED <<fold, sent, header_table, tmp, documents_header>>
    /\ UNCHANGED <<fn, wf_args, doc_exc, comment_ids, dk_pc, dk_exc, document_ids, dk_i>>
    /\ UNCHANGED <<rqVars, gdVars, detailSinks, csvVars, dupVars>>
    /\ UNCHANGED procVars

\* line 393: get_request_json raises
DocObjectIdFails ==
    /\ doc_pc = "object_id"
    /\ outage < MaxOutage
    /\ outage' = outage + 1
    /\ wf_sent' = wf_sent + 1
    /\ doc_pc' = "raised"
    /\ doc_exc' = "RequestError"
    /\ doc_steps' = <<"object_id">>
    /\ UNCHANGED <<fold, pc, exc, n_retrieved, prev_query_max_date, totalElements, page, data,
                   r_items, retries, conn, sent, windows>>
    /\ UNCHANGED <<data_type, id_base, fn, wf_args, comment_ids, dk_pc, dk_exc, document_ids, dk_i>>
    /\ UNCHANGED <<envVars, sinkVars, rqVars, gdVars, detailSinks, csvVars, dupVars>>
    /\ UNCHANGED obsVars

\* os.remove always removes the file
RemoveOutcomesAlt(f) == {NoFile}

\* lines 418-421: os.remove(temp_filename) removes the file, or raises and the
\* bare except passes
RemoveOutcomes(f) == {NoFile, f}

\* lines 414-443 after gather_headers has returned: the identifiers are read
\* from the temporary file and the file is removed, or there is no file and no
\* comment; with comments gather_details is called
DocHeadersReturn ==
    /\ doc_pc = "headers"
    /\ pc = "done"
    /\ pc' = "idle"
    /\ IF csv_file.exists
       THEN /\ comment_ids' \in IdsFromCsv(csv_file)
            /\ csv_file' \in RemoveOutcomes(csv_file)
       ELSE /\ comment_ids' = <<>>
            /\ UNCHANGED csv_file
    /\ IF Len(comment_ids') > 0
       THEN /\ CallGatherDetails(comment_ids')
            /\ doc_pc' = "details"
            /\ doc_steps' = doc_steps \o <<"ids", "remove", "details">>
       ELSE /\ UNCHANGED gdVars
            /\ doc_pc' = "done"
            /\ doc_steps' = doc_steps
    /\ UNCHANGED <<fold, outage, exc, n_retrieved, prev_query_max_date, totalElements, page, data,
                   r_items, retries, conn, sent, windows>>
    /\ UNCHANGED <<data_type, id_base, fn, wf_args, wf_sent, doc_exc, dk_pc, dk_exc,
                   document_ids, dk_i>>
    /\ UNCHANGED <<envVars, header_table, tmp, documents_header, rqVars, detailSinks, csvVars,
                   dupVars>>
    /\ UNCHANGED obsVars

\* line 408: gather_headers raises
DocHeadersRaises ==
    /\ doc_pc = "headers"
    /\ pc = "raised"
    /\ doc_pc' = "raised"
    /\ doc_exc' = exc
    /\ UNCHANGED <<data_type, id_base, fn, wf_args, wf_sent, doc_steps, comment_ids, dk_pc,
                   dk_exc, document_ids, dk_i>>
    /\ UNCHANGED <<envVars, sinkVars, rqVars, ghVars, gdVars, detailSinks, csvVars, dupVars>>
    /\ UNCHANGED obsVars

\* lines 435-443 after gather_details has returned: the count, the report
DocDetailsReturn ==
    /\ doc_pc = "details"
    /\ gd_pc = "done"
    /\ gd_pc' = "idle"
    /\ IF CommentCountRaises
       THEN /\ doc_pc' = "raised"
            /\ doc_exc' = "FileNotFoundError"
       ELSE /\ doc_pc' = "done"
            /\ UNCHANGED doc_exc
    /\ UNCHANGED <<ids, gd_args, gd_exc, gd_i, gd_n_retrieved, gd_data, gd_conn, gd_r_item,
                   gd_skipped, gd_kept, gd_flushes>>
    /\ UNCHANGED <<data_type, id_base, fn, wf_args, wf_sent, doc_steps, comment_ids, dk_pc,
                   dk_exc, document_ids, dk_i>>
    /\ UNCHANGED <<envVars, sinkVars, rqVars, ghVars, detailSinks, csvVars, dupVars>>
    /\ UNCHANGED obsVars

\* line 435: gather_details raises
DocDetailsRaises ==
    /\ doc_pc = "details"
    /\ gd_pc = "raised"
    /\ doc_pc' = "raised"
    /\ doc_exc' = gd_exc
    /\ UNCHANGED <<data_type, id_base, fn, wf_args, wf_sent, doc_steps, comment_ids, dk_pc,
                   dk_exc, document_ids, dk_i>>
    /\ UNCHANGED <<envVars, sinkVars, rqVars, ghVars, gdVars, detailSinks, csvVars, dupVars>>
    /\ UNCHANGED obsVars

\* lines 466-467, 470-478: the sink check, then get_document_ids calls
\* gather_headers
DkStart ==
    /\ dk_pc = "start"
    /\ IF ~wf_args.db_filename /\ ~wf_args.csv_filename
       THEN /\ dk_pc' = "raised"
            /\ dk_exc' = "ValueError"
            /\ UNCHANGED <<data_type, id_base, envVars, sinkVars, pc, exc, n_retrieved,
                           prev_query_max_date, totalElements, page, data, r_items, retries,
                           conn, windows, params, request, retrieved>>
       ELSE /\ dk_pc' = "headers"
            /\ UNCHANGED dk_exc
            /\ CallGatherHeaders("documents", 0, WfMaxDocs)
            /\ UNCHANGED <<header_table, tmp, documents_header>>
    /\ UNCHANGED <<fold, outage, sent>>
    /\ UNCHANGED <<fn, wf_args, wf_sent, doc_pc, doc_exc, doc_steps, comment_ids, document_ids,
                   dk_i>>
    /\ UNCHANGED <<rqVars, gdVars, detailSinks, csvVars, dupVars>>
    /\ UNCHANGED procVars

\* lines 479-488 after gather_headers has returned: get_ids_from_csv opens the
\* temporary file, then the file is removed
DkHeadersReturn ==
    /\ dk_pc = "headers"
    /\ pc = "done"
    /\ pc' = "idle"
    /\ IF csv_file.exists
       THEN /\ document_ids' \in IdsFromCsv(csv_file)
            /\ csv_file' \in RemoveOutcomes(csv_file)
            /\ dk_pc' = "loop"
            /\ UNCHANGED dk_exc
       ELSE /\ dk_pc' = "raised"
            /\ dk_exc' = "FileNotFoundError"
            /\ UNCHANGED <<document_ids, csv_file>>
    /\ dk_i' = 0
    /\ UNCHANGED <<fold, outage, exc, n_retrieved, prev_query_max_date, totalElements, page, data,
                   r_items, retries, conn, sent, windows>>
    /\ UNCHANGED <<data_type, id_base, fn, wf_args, wf_sent, doc_pc, doc_exc, doc_steps,
                   comment_ids>>
    /\ UNCHANGED <<envVars, header_table, tmp, documents_header, rqVars, gdVars, detailSinks,
                   csvVars, dupVars>>
    /\ UNCHANGED obsVars

\* line 474: gather_headers raises
DkHeadersRaises ==
    /\ dk_pc = "headers"
    /\ pc = "raised"
    /\ dk_pc' = "raised"
    /\ dk_exc' = exc
    /\ UNCHANGED <<data_type, id_base, fn, wf_args, wf_sent, doc_pc, doc_exc, doc_steps,
                   comment_ids, document_ids, dk_i>>
    /\ UNCHANGED <<envVars, sinkVars, rqVars, ghVars, gdVars, detailSinks, csvVars, dupVars>>
    /\ UNCHANGED obsVars

\* lines 490-493: the next document: gather_comments_by_document is called
DkNextDocument ==
    /\ dk_pc = "loop"
    /\ doc_pc = "idle"
    /\ dk_i < Len(document_ids)
    /\ dk_i' = dk_i + 1
    /\ doc_pc' = "start"
    /\ UNCHANGED <<data_type, id_base, fn, wf_args, wf_sent, doc_exc, doc_steps, comment_ids,
                   dk_pc, dk_exc, document_ids>>
    /\ UNCHANGED <<envVars, sinkVars, rqVars, ghVars, gdVars, detailSinks, csvVars, dupVars>>
    /\ UNCHANGED obsVars

\* line 493: gather_comments_by_document returns
DkDocumentReturn ==
    /\ dk_pc = "loop"
    /\ doc_pc = "done"
    /\ doc_pc' = "idle"
    /\ UNCHANGED <<data_type, id_base, fn, wf_args, wf_sent, doc_exc, doc_steps, comment_ids,
                   dk_pc, dk_exc, document_ids, dk_i>>
    /\ UNCHANGED <<envVars, sinkVars, rqVars, ghVars, gdVars, detailSinks, csvVars, dupVars>>
    /\ UNCHANGED obsVars

\* line 493: gather_comments_by_document raises
DkDocumentRaises ==
    /\ dk_pc = "loop"
    /\ doc_pc = "raised"
    /\ dk_pc' = "raised"
    /\ dk_exc' = doc_exc
    /\ UNCHANGED <<data_type, id_base, fn, wf_args, wf_sent, doc_pc, doc_exc, doc_steps,
                   comment_ids, document_ids, dk_i>>
    /\ UNCHANGED <<envVars, sinkVars, rqVars, ghVars, gdVars, detailSinks, csvVars, dupVars>>
    /\ UNCHANGED obsVars

\* lines 495-497: the loop is over: the count, the report
DkFinish ==
    /\ dk_pc = "loop"
    /\ doc_pc = "idle"
    /\ dk_i = Len(document_ids)
    /\ IF CommentCountRaises
       THEN /\ dk_pc' = "raised"
            /\ dk_exc' = "FileNotFoundError"
       ELSE /\ dk_pc' = "done"
            /\ UNCHANGED dk_exc
    /\ UNCHANGED <<data_type, id_base, fn, wf_args, wf_sent, doc_pc, doc_exc, doc_steps,
                   comment_ids, document_ids, dk_i>>
    /\ UNCHANGED <<envVars, sinkVars, rqVars, ghVars, gdVars, detailSinks, csvVars, dupVars>>
    /\ UNCHANGED obsVars

WfFunctions == {"gather_headers", "gather_details", "gather_comments_by_document",
                "gather_comments_by_docket"}

\* one function of the public interface is called with its sinks; the other
\* functions wait to be called by it
InitWf ==
    /\ fn \in WfFunctions
    /\ wf_args \in [db_filename : BOOLEAN, csv_filename : BOOLEAN]
    /\ wf_sent = 0
    /\ data_type = "comments"
    /\ id_base = 0
    \* gather_headers
    /\ pc = IF fn = "gather_headers" THEN "start" ELSE "idle"
    /\ items \in IF fn = "gather_headers" THEN WfResultSets(WfMaxItems) ELSE {<<>>}
    /\ max_items = <<>>
    /\ db_filename = IF fn = "gather_headers" THEN wf_args.db_filename ELSE FALSE
    /\ csv_filename = IF fn = "gather_headers" THEN wf_args.csv_filename ELSE FALSE
    /\ fold = "unset"
    /\ outage = 0
    /\ exc = ""
    /\ n_retrieved = 0
    /\ prev_query_max_date = INITIAL_DATE
    /\ totalElements = 0
    /\ page = 0
    /\ data = <<>>
    /\ r_items = <<>>
    /\ retries = 0
    /\ conn = "none"
    /\ sent = 0
    /\ windows = 0
    \* gather_details
    /\ gd_pc = IF fn = "gather_details" THEN "start" ELSE "idle"
    /\ ids \in IF fn = "gather_details" THEN {<<>>, <<1>>, <<1, 2>>} ELSE {<<>>}
    /\ gd_args = [db_filename |-> wf_args.db_filename, csv_filename |-> wf_args.csv_filename,
                  insert_every_n_rows |-> DEFAULT_INSERT_EVERY, skip_duplicates |-> TRUE]
    /\ gd_exc = ""
    /\ gd_i = 0
    /\ gd_n_retrieved = 0
    /\ gd_data = <<>>
    /\ gd_conn = "none"
    /\ gd_r_item = <<>>
    /\ gd_skipped = 0
    /\ gd_kept = <<>>
    /\ gd_flushes = <<>>
    \* the workflows
    /\ doc_pc = IF fn = "gather_comments_by_document" THEN "start" ELSE "idle"
    /\ doc_exc = ""
    /\ doc_steps = <<>>
    /\ comment_ids = <<>>
    /\ dk_pc = IF fn = "gather_comments_by_docket" THEN "start" ELSE "idle"
    /\ dk_exc = ""
    /\ document_ids = <<>>
    /\ dk_i = 0
    /\ SinksInit
    /\ DetailSinksInit
    /\ CsvIdle
    /\ DupIdle
    /\ RqIdle
    /\ ParIdle
    /\ ProcIdle

NextWf ==
    \/ Start
    \/ CountProbe
    \/ CountProbeFails
    \/ EnterOuter
    \/ Finish
    \/ EnterInner
    \/ PageSucceeds
    \/ PageFails
    \/ RetriesExhausted
    \/ WindowEnd
    \/ DetailsStart
    \/ DetailFetch
    \/ DetailsFinish
    \/ DocStart
    \/ DocObjectId
    \/ DocObjectIdFails
    \/ DocHeadersReturn
    \/ DocHeadersRaises
    \/ DocDetailsReturn
    \/ DocDetailsRaises
    \/ DkStart
    \/ DkHeadersReturn
    \/ DkHeadersRaises
    \/ DkNextDocument
    \/ DkDocumentReturn
    \/ DkDocumentRaises
    \/ DkFinish

SpecWf == InitWf /\ [][NextWf]_vars

(***************************************************************************)
(* Properties of gather_headers (Spec)                                     *)
(***************************************************************************)
\* identifiers of the rows the run has written so far
TableIds == {r.id : r \in header_table}
CsvIds == {csv_file.lines[i].row.id :
             i \in {j \in 1..Len(csv_file.lines) : ~csv_file.lines[j].header}}
Written(i) ==
    /\ db_filename => i \in TableIds
    /\ csv_filename => i \in CsvIds

\* the count probe has returned
Probed == pc \in {"outer", "inner", "retry", "done"} \/ exc \in {"UnboundLocalError", "IndexError"}

\* C1: when gather_headers runs with max_items=None against a static result
\* set and returns normally, every item of the result set has been written to
\* every sink in use.
C1_Completeness ==
    (pc = "done" /\ max_items = <<>>) => \A i \in 1..Len(items) : Written(i)

\* the size of the two-window scenario: one full window and a last page that
\* holds one item (6,001 = 5,000 + 4 * 250 + 1)
E2ETotal == WindowSize + 1

\* the first record of the second window was already retrieved in the first
RefetchedBoundaryRow ==
    /\ windows = 2
    /\ Len(data) > 0
    /\ data[1].id <= WindowSize

\* C2: for a result set of exactly E2ETotal items written to a database, when
\* the run has ended its second window has re-retrieved a row of the first
\* window, and the header table holds exactly E2ETotal rows.
C2_EndToEnd ==
    (Len(items) = E2ETotal /\ max_items = <<>> /\ db_filename /\ pc = "done") =>
        /\ RefetchedBoundaryRow
        /\ Cardinality(header_table) = E2ETotal

\* C3: the cursor prev_query_max_date never decreases during a run.
C3_CursorMonotone == [][prev_query_max_date' >= prev_query_max_date]_vars

\* C5: a page request is attempted at most MaxRetries times, and when all
\* attempts have raised the exception propagates: the run ends raised, and
\* nothing is added to n_retrieved or to the page buffer for that page.
C5_RetryPropagates ==
    [][/\ (pc = "retry" /\ retries > 0 /\ pc' = "retry") => retries' = retries - 1
       /\ (pc = "retry" /\ retries = 0) =>
             (pc' = "raised" /\ n_retrieved' = n_retrieved /\ data' = data)]_vars

\* max_items is given and smaller than the size of the result set
Clamped == IF max_items = <<>> THEN FALSE ELSE max_items[1] < Len(items)

\* C9: when max_items < totalElements the target is max_items, and no request
\* is sent once the probe has returned and n_retrieved has reached the target.
C9_MaxItemsClamp ==
    [][(Clamped /\ Probed) =>
          /\ totalElements = max_items[1]
          /\ sent' > sent => n_retrieved < max_items[1]]_vars

C9_Witness ==
    /\ Clamped
    /\ pc = "done"
    /\ sent > 2
    /\ n_retrieved >= max_items[1]
    /\ n_retrieved < Len(items)

\* C10: when the count probe reports 0 items, the probe is the only request,
\* no batch reaches a sink (no row inserted, nothing staged, no CSV file) and
\* the run ends normally.
C10_EmptyResultSet ==
    (Len(items) = 0 /\ pc \notin {"start", "probe"} /\ exc \notin {"ValueError", "RequestError"}) =>
        /\ pc \in {"outer", "done"}
        /\ pc = "outer" => (ENABLED Finish /\ ~ENABLED EnterOuter)
        /\ sent = 1
        /\ header_table = {} /\ tmp = <<>> /\ csv_file = NoFile

C10_Witness ==
    /\ Len(items) = 0
    /\ pc = "done"
    /\ sent = 1
    /\ db_filename /\ csv_filename
    /\ conn = "closed"

(***************************************************************************)
(* Properties of get_request_json (SpecReq)                                *)
(***************************************************************************)
\* the attempts the claim states: int(60 / WAIT_MINUTES) + 2
ClaimedAttempts == (60 \div WAIT_MINUTES) + 2

OnlyRateLimited == \A i \in 1..Len(rq_hist) : rq_hist[i].status = STATUS_CODE_OVER_RATE_LIMIT

\* C6: a call never sends more than ClaimedAttempts requests; with
\* wait_for_rate_limits, when every answer is 429, the call ends after exactly
\* ClaimedAttempts requests by raising RuntimeError with the last body; a body
\* is returned only from a 200 answer or, with skip_duplicates, when it is the
\* duplicate anomaly.
C6_BoundedRateLimitRetry ==
    /\ Len(rq_hist) <= ClaimedAttempts
    /\ (rq_args.wait_for_rate_limits /\ OnlyRateLimited /\ rq_pc # "loop") =>
          /\ rq_pc = "raised"
          /\ rq_out.exc = "RuntimeError"
          /\ Len(rq_hist) = ClaimedAttempts
          /\ rq_out.body = Last(rq_hist).body
    /\ rq_pc = "returned" =>
          /\ rq_out.body = Last(rq_hist).body
          /\ \/ Last(rq_hist).status = 200
             \/ rq_args.skip_duplicates /\ IsDuplicatedOnServer(rq_out.body)

C6_Witness ==
    /\ rq_args.wait_for_rate_limits
    /\ OnlyRateLimited
    /\ rq_pc = "raised"
    /\ rq_out.exc = "RuntimeError"
    /\ Len(rq_hist) = ClaimedAttempts
    /\ rq_out.body.seq = ClaimedAttempts

\* C7: without wait_for_rate_limits a 429 answer ends the call: it is the
\* last request, the call has raised, and no sleep was made; when it is the
\* first answer, the call has sent exactly one request.
C7_RateLimitWithoutOptIn ==
    ~rq_args.wait_for_rate_limits =>
        \A i \in 1..Len(rq_hist) :
            rq_hist[i].status = STATUS_CODE_OVER_RATE_LIMIT =>
                /\ i = Len(rq_hist)
                /\ rq_pc = "raised"
                /\ rq_out.exc = "HTTPError"
                /\ rq_sleeps = 0

C7_Witness ==
    /\ ~rq_args.wait_for_rate_limits
    /\ Len(rq_hist) = 1
    /\ rq_hist[1].status = STATUS_CODE_OVER_RATE_LIMIT
    /\ rq_pc = "raised"

\* C8: an answer whose status is neither 200 nor 429, and which is not a
\* duplicate anomaly skipped under skip_duplicates, ends the call by an
\* exception: no request follows it, and when it is the first answer exactly
\* one request was sent and no sleep was made.
C8_FailFast ==
    \A i \in 1..Len(rq_hist) :
        (/\ rq_hist[i].status \notin {200, STATUS_CODE_OVER_RATE_LIMIT}
         /\ ~(rq_args.skip_duplicates /\ IsDuplicatedOnServer(rq_hist[i].body))) =>
            /\ i = Len(rq_hist)
            /\ rq_pc = "raised"
            /\ i = 1 => rq_sleeps = 0

\* C19: a 200 answer ends the call with success and its own JSON body,
\* whatever the X-RateLimit-Remaining header holds, whether or not the header
\* is there, and whatever print_remaining_requests is.
C19_QuotaObservational ==
    \A i \in 1..Len(rq_hist) :
        rq_hist[i].status = 200 =>
            /\ i = Len(rq_hist)
            /\ rq_pc = "returned"
            /\ rq_out = [exc |-> "", body |-> rq_hist[i].body]

(***************************************************************************)
(* Properties of _insert_data (SpecSink)                                   *)
(***************************************************************************)
\* C4: an insert never removes or changes a row of the table; afterwards the
\* table holds exactly one row for each identifier it held or the batch
\* brought; and inserting the batch that was inserted last leaves the table
\* as it is.
C4_IdempotentUpsert ==
    [][/\ header_table \subseteq header_table'
       /\ \A r1, r2 \in header_table' : r1.id = r2.id => r1 = r2
       /\ {r.id : r \in header_table'} =
             {r.id : r \in header_table} \cup {tmp'[i].id : i \in 1..Len(tmp')}
       /\ tmp' = tmp => header_table' = header_table]_vars

\* a batch brought an identifier of the table with another content, and the
\* row of the table was kept
C4_Witness ==
    \E r \in header_table : \E i \in 1..Len(tmp) : tmp[i].id = r.id /\ tmp[i] # r

(***************************************************************************)
(* Properties of gather_details (SpecDet)                                  *)
(***************************************************************************)
RECURSIVE Flat(_)
\* the batches of a sequence of batches, one after the other
Flat(bs) == IF bs = <<>> THEN <<>> ELSE Head(bs) \o Flat(Tail(bs))

\* the records retrieved so far, in the order of the identifier list
KeptRecords == [k \in 1..Len(gd_kept) |-> Detail(ids[gd_kept[k]])]

DetailState == <<gd_n_retrieved, gd_data, gd_kept, gd_flushes, detail_table, detail_csv, tmp>>

\* C12: with skip_duplicates, an iteration whose response is the duplicate
\* anomaly changes neither the count nor the batch nor the sinks and leaves the
\* loop running; when the run has returned, the count reported is the length
\* of the identifier list minus the number of skipped identifiers, and it is
\* the number of records handed to the sink.
C12_DuplicateSkip ==
    /\ [][(/\ gd_args.skip_duplicates
           /\ gd_i' = gd_i + 1
           /\ gd_r_item' # <<>>
           /\ gd_exc' = ""
           /\ IsDuplicatedOnServer(gd_r_item'[1])) =>
              /\ DetailState' = DetailState
              /\ gd_skipped' = gd_skipped + 1
              /\ gd_pc' = "loop"]_vars
    /\ []((gd_args.skip_duplicates /\ gd_pc = "done") =>
              /\ gd_n_retrieved = Len(ids) - gd_skipped
              /\ gd_n_retrieved = Len(Flat(gd_flushes)))

\* a run that returned after skipping an identifier between two it kept
C12_Witness ==
    /\ gd_args.skip_duplicates
    /\ gd_pc = "done"
    /\ gd_skipped = 1
    /\ Len(ids) = 3
    /\ gd_kept = <<1, 3>>
    /\ gd_n_retrieved = 2

\* the exceptions get_request_json raises
FetchErrors == {"HTTPError", "RuntimeError"}

\* the data rows of a CSV file, in file order
CsvRows(f) == [k \in 1..(Len(f.lines) - 1) |-> f.lines[k + 1].row]

\* the records of the complete batches among the s records retrieved so far
CompleteBatches ==
    LET every == gd_args.insert_every_n_rows
        s     == Len(gd_kept)
        m     == IF every = 0 THEN 0 ELSE (s \div every) * every
    IN  SubSeq(KeptRecords, 1, m)

\* C20: when gather_details has failed with an exception of a detail request,
\* the sinks hold exactly the records of the complete batches flushed before
\* the failure, the first floor(s / insert_every_n_rows) * insert_every_n_rows
\* of the s records retrieved; the failing step neither removes nor alters a
\* row; and the run has not returned.
C20_ProgressSurvivesFailure ==
    /\ [](gd_exc \in FetchErrors =>
            /\ gd_pc = "raised"
            /\ Flat(gd_flushes) = CompleteBatches
            /\ gd_args.db_filename =>
                  detail_table = {CompleteBatches[k] : k \in 1..Len(CompleteBatches)}
            /\ gd_args.csv_filename =>
                  IF CompleteBatches = <<>> THEN detail_csv = NoFile
                  ELSE CsvRows(detail_csv) = CompleteBatches)
    /\ [][gd_exc' \in FetchErrors =>
            /\ detail_table' = detail_table
            /\ detail_csv' = detail_csv]_vars

\* a run that failed on its fourth identifier with one full batch written and
\* one record in memory
C20_Witness ==
    /\ gd_exc = "RuntimeError"
    /\ gd_i = 4
    /\ gd_args.insert_every_n_rows = 2
    /\ gd_args.db_filename /\ gd_args.csv_filename
    /\ Len(gd_kept) = 3
    /\ Len(gd_flushes) = 1
    /\ Len(gd_data) = 1
    /\ Cardinality(detail_table) = 2

(***************************************************************************)
(* Properties of _is_duplicated_on_server (SpecDup)                        *)
(***************************************************************************)
\* text s starts with text p
StartsWith(s, p) == Len(s) >= Len(p) /\ \A i \in 1..Len(p) : s[i] = p[i]

\* the body has an 'errors' list whose first entry has status "500" and a
\* detail that starts with "Incorrect result size"
IsDupAnomaly(body) ==
    IF "errors" \in DOMAIN body
    THEN IF Len(body.errors) > 0
         THEN /\ body.errors[1].status = "500"
              /\ StartsWith(body.errors[1].detail, DupPrefix)
         ELSE FALSE
    ELSE FALSE

\* C13: the call answers true exactly when the body has an 'errors' list whose
\* first entry has status "500" and a detail starting with "Incorrect result
\* size"; it answers false for a body without 'errors', for a first entry with
\* another status, and for a first entry with another detail.
C13_DupClassification ==
    dup_result # <<>> =>
        /\ dup_result = <<"true">> <=> IsDupAnomaly(dup_body)
        /\ "errors" \notin DOMAIN dup_body => dup_result = <<"false">>
        /\ ("errors" \in DOMAIN dup_body /\ dup_body.errors # <<>>) =>
              /\ dup_body.errors[1].status # "500" => dup_result = <<"false">>
              /\ ~StartsWith(dup_body.errors[1].detail, DupPrefix) => dup_result = <<"false">>

\* the anomaly was recognised in a detail that goes on after the literal
C13_Witness ==
    /\ dup_result = <<"true">>
    /\ dup_body.errors[1].detail = DupDetail
    /\ Len(dup_body.errors) = 1

(***************************************************************************)
(* Properties of _write_to_csv (SpecCsv)                                   *)
(***************************************************************************)
\* the positions of the header lines of a file
HeaderLines(f) == {i \in 1..Len(f.lines) : f.lines[i].header}

\* C16: on a file that did not exist before the first call, after one or more
\* calls the file has exactly one header line, the first; and a call on the
\* existing file keeps what the file holds and appends one data row for each
\* row of its batch, in the order of the batch.
C16_HeaderOnce ==
    /\ [](n_writes >= 1 => (csv_file.exists /\ HeaderLines(csv_file) = {1}))
    /\ [][n_writes' = n_writes + 1 =>
           LET old == IF csv_file.exists THEN csv_file.lines ELSE <<[header |-> TRUE]>>
           IN  /\ Len(csv_file'.lines) = Len(old) + Len(csv_data')
               /\ SubSeq(csv_file'.lines, 1, Len(old)) = old
               /\ \A k \in 1..Len(csv_data') :
                     /\ ~csv_file'.lines[Len(old) + k].header
                     /\ csv_file'.lines[Len(old) + k].row.id = csv_data'[k].id
                     /\ Len(csv_file'.lines[Len(old) + k].row.text) =
                           Len(csv_data'[k].text)]_vars

\* two calls were made: one header line, then the rows of both batches
C16_Witness ==
    /\ n_writes = 2
    /\ Len(csv_file.lines) = 4
    /\ HeaderLines(csv_file) = {1}
    /\ Len(csv_data) = 1

\* A line break of a text file is a line feed, a carriage return, or a carriage
\* return followed by a line feed (the reading of Python's text mode, with
\* which line 522 opens the CSV files, and of str.splitlines).
BreaksIn(text) ==
    Cardinality({i \in 1..Len(text) :
                    \/ text[i] = "\r"
                    \/ (text[i] = "\n" /\ (IF i = 1 THEN TRUE ELSE text[i - 1] # "\r"))})

\* the physical lines one record of the file takes
LinesOf(line) == IF line.header THEN 1 ELSE 1 + BreaksIn(line.row.text)

RECURSIVE SumLines(_)
SumLines(ls) == IF ls = <<>> THEN 0 ELSE LinesOf(Head(ls)) + SumLines(Tail(ls))

\* the physical lines of a file
PhysicalLines(f) == SumLines(f.lines)

\* C17: a call writes each row with every line feed of its field replaced by
\* one space and nothing else changed, so that the physical lines appended
\* are one for each row of the batch, plus the header line on the first call.
C17_OneRowOneLine ==
    [][n_writes' = n_writes + 1 =>
         LET first == ~csv_file.exists
             base  == Len(csv_file'.lines) - Len(csv_data')
         IN  /\ \A k \in 1..Len(csv_data') :
                   LET old == csv_data'[k].text
                       new == csv_file'.lines[base + k].row.text
                   IN  /\ Len(new) = Len(old)
                       /\ \A i \in 1..Len(old) :
                             new[i] = (IF old[i] = "\n" THEN " " ELSE old[i])
             /\ PhysicalLines(csv_file') - PhysicalLines(csv_file) =
                   Len(csv_data') + (IF first THEN 1 ELSE 0)]_vars

(***************************************************************************)
(* Properties of the workflows (SpecWf)                                    *)
(***************************************************************************)

\* where the called function of the public interface is at, and what it raised
TopPc ==
    CASE fn = "gather_headers" -> pc
      [] fn = "gather_details" -> gd_pc
      [] fn = "gather_comments_by_document" -> doc_pc
      [] OTHER -> dk_pc

TopExc ==
    CASE fn = "gather_headers" -> exc
      [] fn = "gather_details" -> gd_exc
      [] fn = "gather_comments_by_document" -> doc_exc
      [] OTHER -> dk_exc

NoSink == ~wf_args.db_filename /\ ~wf_args.csv_filename

\* no request was sent, no connection was opened, no table and no file was
\* written
NothingTouched ==
    /\ sent = 0
    /\ wf_sent = 0
    /\ gd_i = 0
    /\ conn = "none"
    /\ gd_conn = "none"
    /\ header_table = {}
    /\ documents_header = {}
    /\ tmp = <<>>
    /\ csv_file = NoFile
    /\ detail_table = {}
    /\ detail_csv = NoFile

\* C18: called with neither a database nor a CSV file, each of gather_headers,
\* gather_details, gather_comments_by_document and gather_comments_by_docket
\* raises ValueError, and it does so before any request is sent and before
\* any file or database is created or written
C18_FailFastNoSink ==
    NoSink =>
        /\ NothingTouched
        /\ TopPc \in {"start", "raised"}
        /\ TopPc = "raised" => TopExc = "ValueError"
        /\ \A f \in {pc, gd_pc, doc_pc, dk_pc} : f = TopPc \/ f = "idle"

C18_Witness ==
    /\ NoSink
    /\ fn = "gather_comments_by_document"
    /\ doc_pc = "raised"
    /\ doc_exc = "ValueError"
    /\ NothingTouched

DocumentSteps == <<"object_id", "headers", "ids", "remove", "details">>

\* the temporary file of the header pagination of gather_comments_by_document
TempFileExists == csv_file.exists

\* C14: gather_comments_by_document performs its steps in the order object-id
\* lookup, header pagination into the temporary file, identifier extraction,
\* deletion of the temporary file, detail fetch; no detail request is sent
\* while the temporary file exists, and the temporary file does not exist
\* when the workflow has ended
C14_DocumentOrdering ==
    fn = "gather_comments_by_document" =>
        /\ Len(doc_steps) <= Len(DocumentSteps)
        /\ doc_steps = SubSeq(DocumentSteps, 1, Len(doc_steps))
        /\ gd_pc # "idle" => (pc = "idle" /\ doc_steps = DocumentSteps)
        /\ gd_i > 0 => ~TempFileExists
        /\ doc_pc \in {"done", "raised"} => ~TempFileExists

CommentIdSet == {comment_ids[i] : i \in 1..Len(comment_ids)}

\* C15 as stated: during gather_comments_by_document the header pagination
\* writes its rows only to the temporary file, and the comments_header table
\* of the target database is left as it was (empty, here, when the workflow
\* is called)
C15_HeaderTableUnchanged ==
    fn = "gather_comments_by_document" => header_table = {}

\* C15, amended: during gather_comments_by_document the header pagination
\* writes its rows to the temporary file and, when a database is given, it
\* inserts the same rows into the comments_header table of that database;
\* with no database no table is written. The header pagination writes neither
\* to the detail table nor to the CSV target nor to documents_header.
C15_HeaderRowsAlsoInTable ==
    fn = "gather_comments_by_document" =>
        /\ documents_header = {}
        /\ ~wf_args.db_filename => header_table = {}
        /\ (wf_args.db_filename /\ doc_pc = "headers") => TableIds = CsvIds
        /\ (wf_args.db_filename /\ doc_pc \in {"details", "done"}) => TableIds = CommentIdSet
        /\ doc_pc = "headers" => (detail_table = {} /\ detail_csv = NoFile)

C15_Witness ==
    /\ fn = "gather_comments_by_document"
    /\ wf_args.db_filename
    /\ doc_pc = "done"
    /\ ~TempFileExists
    /\ Cardinality(header_table) = WfMaxItems
    /\ TableIds = CommentIdSet

(***************************************************************************)
(* Properties of the requests of gather_headers (SpecPar)                  *)
(***************************************************************************)
\* the keys gather_headers and get_request_json set
SetKeys == {"filter[lastModifiedDate][ge]", "page[number]", "page[size]", "sort"}

PageRequestStep ==
    (sent' = sent + 1) =>
        /\ request' # <<>>
        /\ request'[1]["page[size]"] = 250
        /\ pc = "retry" =>
              /\ request'[1]["sort"] = "lastModifiedDate"
              /\ IntOf(request'[1]["page[number]"]) = page
              /\ request'[1]["filter[lastModifiedDate][ge]"] = prev_query_max_date
        /\ \A k \in DOMAIN params \ SetKeys : request'[1][k] = params[k]

\* C21: every listing request carries page[size] = 250 whatever the caller
\* passed, and every page request of gather_headers carries
\* sort = lastModifiedDate, the current page counter as page[number] and the
\* current cursor as filter[lastModifiedDate][ge], whatever the caller passed
\* for these keys
C21_RequestParameters == [][PageRequestStep]_vars

\* the first request of the second window, for a caller who passed values
\* for the four keys
C21_Witness ==
    /\ DOMAIN params = SetKeys
    /\ windows = 2
    /\ prev_query_max_date # INITIAL_DATE
    /\ request # <<>>
    /\ request[1]["page[number]"] = <<"1">>
    /\ request[1]["sort"] = "lastModifiedDate"
    /\ request[1]["page[size]"] = 250
    /\ request[1]["filter[lastModifiedDate][ge]"] = prev_query_max_date
    /\ prev_query_max_date # params["filter[lastModifiedDate][ge]"]

\* the data rows of the CSV file
CsvDataRows == {i \in 1..Len(csv_file.lines) : ~csv_file.lines[i].header}

\* the rows the run has added to the table, and the identifiers the table
\* held before the run
AddedRows == header_table \ {PreRow}
HeldBefore == {r.id : r \in header_table \cap {PreRow}}

\* C22: when a gather_headers run returns normally, the number of data rows
\* appended to the CSV file equals the final n_retrieved (rows fetched again
\* by a later window included), and the number of rows added to the table is
\* at most n_retrieved and equals the number of distinct identifiers
\* retrieved that the table did not hold before
C22_CountAccounting ==
    pc = "done" =>
        /\ csv_filename => Cardinality(CsvDataRows) = n_retrieved
        /\ db_filename =>
              /\ Cardinality(AddedRows) <= n_retrieved
              /\ Cardinality(AddedRows) = Cardinality(retrieved \ HeldBefore)

\* a run over two windows that fetched an item twice, into a table that held
\* one of the identifiers
C22_Witness ==
    /\ pc = "done"
    /\ db_filename
    /\ csv_filename
    /\ windows = 2
    /\ PreRow \in header_table
    /\ 1 \in retrieved
    /\ Cardinality(retrieved) < n_retrieved
    /\ Cardinality(AddedRows) = Cardinality(retrieved) - 1
    /\ Cardinality(CsvDataRows) = n_retrieved

(***************************************************************************)
(* Properties of _get_processed_data (SpecProc)                            *)
(***************************************************************************)
RECURSIVE PartStart(_, _)
\* where part j begins in the joined text: after the parts before it and one
\* separator for each
PartStart(ts, j) == IF j = 1 THEN 0 ELSE PartStart(ts, j - 1) + Len(ts[j - 1]) + 1

\* t is the parts of ts with a single space between neighbours
IsJoined(t, ts) ==
    IF ts = <<>> THEN t = <<>>
    ELSE /\ Len(t) = PartStart(ts, Len(ts)) + Len(ts[Len(ts)])
         /\ \A j \in 1..Len(ts) :
              /\ \A c \in 1..Len(ts[j]) : t[PartStart(ts, j) + c] = ts[j][c]
              /\ j > 1 => t[PartStart(ts, j)] = " "

\* row is what the claim says of item, FirstKeys being the attribute keys of
\* the first item
RowAsClaimed(row, item, FirstKeys, id_col) ==
    LET kept == DOMAIN item.attributes \cap (FirstKeys \ ExcludedCols) IN
    /\ DOMAIN row = kept \cup {id_col}
    /\ row[id_col] = item.id
    /\ \A k \in kept :
         IF item.attributes[k].list
         THEN /\ ~row[k].list
              /\ Len(row[k].parts) = 1
              /\ IsJoined(row[k].parts[1], item.attributes[k].parts)
         ELSE row[k] = item.attributes[k]

\* C23: _get_processed_data returns one row per input item, in input order;
\* each row holds the item's attributes whose keys are in the first item's
\* key set minus the four excluded keys, list values joined by a single
\* space, other values unchanged, and the item's id under id_col
C23_RecordNormalisation ==
    pd_result # <<>> =>
        /\ Len(pd_result[1]) = Len(pd_data)
        /\ \A i \in 1..Len(pd_data) :
             RowAsClaimed(pd_result[1][i], pd_data[i], DOMAIN pd_data[1].attributes,
                          IdCol(data_type))

\* a batch whose second item has a key the first item lacks, an excluded key
\* and a list value
C23_Witness ==
    /\ pd_result # <<>>
    /\ Len(pd_data) = ProcMaxItems
    /\ DOMAIN pd_data[1].attributes = {"title", "displayProperties"}
    /\ DOMAIN pd_data[2].attributes = AttrKeys
    /\ pd_data[2].attributes["title"].list
    /\ DOMAIN pd_result[1][2] = {"title", IdCol(data_type)}
    /\ pd_result[1][2]["title"] = StrValue(<<"a", " ", "b", "c">>)

(***************************************************************************)
(* Further properties of gather_headers (Spec)                             *)
(***************************************************************************)
\* positions of the items of the result set that no response has delivered yet
Unretrieved == {i \in 1..Len(items) : Item(i).id \notin retrieved}

\* an outer-loop iteration after the first is about to start
NextWindowStarts == pc = "outer" /\ windows >= 1 /\ OuterGuard

\* C24: at the start of every outer-loop iteration after the first, every
\* item not yet retrieved has a lastModifiedDate that satisfies the filter
\* lastModifiedDate >= cursor as the server reads it: advancing the cursor
\* never places an unretrieved item below the lower bound
C24_ResumptionInvariant ==
    NextWindowStarts =>
        \A f \in Folds(prev_query_max_date) :
            \A i \in Unretrieved : items[i] >= ServerLowerBound(prev_query_max_date, f)

\* C24 for the cursors that denote one instant only
C24_Unambiguous ==
    (NextWindowStarts /\ ~Ambiguous(prev_query_max_date)) =>
        \A i \in Unretrieved : items[i] >= ServerLowerBound(prev_query_max_date, fold)

(***************************************************************************)
(* Further properties of get_request_json (SpecReq)                        *)
(***************************************************************************)
\* the rate-limit answers received so far
RateLimitAnswers == {i \in 1..Len(rq_hist) : rq_hist[i].status = 429}

\* C25: with wait_for_rate_limits true, each 429 response is followed by a
\* cool-down of exactly 120 sleeps of POLL_SECONDS seconds, and every
\* cool-down is followed by another request attempt: the call does not end
\* on a cool-down
C25_CooldownThenRetry ==
    rq_args.wait_for_rate_limits =>
        /\ rq_sleeps = 120 * Cardinality(RateLimitAnswers)
        /\ rq_pc \in {"returned", "raised"} => Len(rq_hist) \notin RateLimitAnswers

\* a page request is sent in this step
PageRequested == pc = "retry" /\ sent' = sent + 1

\* C26: every outer-loop iteration starts with page = 1 and an empty page
\* buffer; the page number requested never exceeds MaxPages (20) and the page
\* buffer never holds more than WindowSize (5,000) items
C26_WindowStateBound ==
    /\ [](Len(data) <= WindowSize)
    /\ [][/\ windows' = windows + 1 => (page' = 1 /\ data' = <<>>)
          /\ PageRequested => page <= MaxPages]_vars

\* C26 as long as no request has failed
C26_NoFailure ==
    /\ [](outage = 0 => Len(data) <= WindowSize)
    /\ [][/\ windows' = windows + 1 => (page' = 1 /\ data' = <<>>)
          /\ (PageRequested /\ outage = 0) => page <= MaxPages]_vars

\* the response to the request for the current page of this window is added
\* to the counter and to the page buffer
CurrentPageBuffered ==
    /\ PageRequested
    /\ r_items' = <<ListResponse(prev_query_max_date, page, fold')>>
    /\ n_retrieved' = n_retrieved + Len(r_items'[1].data)
    /\ data' = data \o r_items'[1].data

\* the step of a run that adds to the counter or to the page buffer, or moves
\* to the next page
PageCounted ==
    /\ pc = "retry"
    /\ (n_retrieved' # n_retrieved \/ data' # data \/ page' # page)

\* C27: within a window the pages requested are 1, 2, 3, ... without gaps,
\* and what is added to the page buffer and to n_retrieved for page N is
\* exactly the response to the request for page N of that window
C27_PageBufferedOnce ==
    [][/\ PageCounted => (CurrentPageBuffered /\ page' = page + 1)
       /\ page' # page => (page' = page + 1 \/ (page' = 1 /\ windows' = windows + 1))]_vars

\* C27 as long as no request has failed
C27_NoFailure ==
    [][/\ (PageCounted /\ outage = 0) => (CurrentPageBuffered /\ page' = page + 1)
       /\ page' # page => (page' = page + 1 \/ (page' = 1 /\ windows' = windows + 1))]_vars

(***************************************************************************)
(* Termination of gather_headers (SpecLive)                                *)
(***************************************************************************)
Terminated == pc \in {"done", "raised"}

\* C28: for every finite result set, when every request returns or raises, a
\* gather_headers run terminates, normally or by raising; also when a whole
\* window of records shares one lastModifiedDate and the cursor stays put
C28_Termination == <>Terminated

\* a run over a result set of more than one window whose items all share one
\* lastModifiedDate has ended in its second window
C28_Witness ==
    /\ pc = "done"
    /\ Len(items) > WindowSize
    /\ \A i \in 1..Len(items) : items[i] = items[1]
    /\ windows = 2
    /\ prev_query_max_date = ToEastern(items[1])

(***************************************************************************)
(* Further properties of the workflows (SpecWf)                            *)
(***************************************************************************)
\* the listing of the docket's documents has returned normally and the
\* docket has no documents
EmptyDocketListed ==
    /\ fn = "gather_comments_by_docket"
    /\ dk_pc \in {"loop", "done", "raised"}
    /\ data_type = "documents"
    /\ items = <<>>
    /\ exc = ""

\* C29: gather_comments_by_docket called for a docket that has no documents
\* does not raise, fetches no comment and handles 0 documents, as
\* gather_comments_by_document does for a document that has no comments
C29_EmptyDocket ==
    EmptyDocketListed =>
        /\ dk_pc # "raised"
        /\ document_ids = <<>>
        /\ gd_i = 0
        /\ doc_pc = "idle"

\* gather_comments_by_document for a document that has no comments has ended
\* normally without a detail request
NoCommentsDocumentDone ==
    /\ fn = "gather_comments_by_document"
    /\ doc_pc = "done"
    /\ items = <<>>
    /\ comment_ids = <<>>
    /\ gd_pc = "idle"

\* the data rows of the temporary file and the distinct identifiers in them
TempRows == SelectSeq(csv_file.lines, LAMBDA l : ~l.header)
TempIds == {TempRows[i].row.id : i \in 1..Len(TempRows)}

Injective(list) == \A i, j \in 1..Len(list) : list[i] = list[j] => i = j
Range(list) == {list[i] : i \in 1..Len(list)}

\* get_comment_ids hands over the distinct identifiers of the temporary file,
\* each once, and gather_details is called with that list
IdsHandedOver ==
    (doc_pc = "headers" /\ doc_pc' \in {"details", "done"}) =>
        /\ Injective(comment_ids')
        /\ Range(comment_ids') = (IF csv_file.exists THEN TempIds ELSE {})
        /\ (doc_pc' = "details") = (comment_ids' # <<>>)
        /\ doc_pc' = "details" => ids' = comment_ids' /\ gd_i' = 0

\* an iteration of the detail loop issues the request for the next identifier
\* of the list, which no earlier iteration has asked for
OneRequestEach ==
    (doc_pc = "details" /\ gd_i' # gd_i) =>
        /\ gd_i' = gd_i + 1
        /\ ids' = ids
        /\ ids = comment_ids
        /\ ids[gd_i'] \notin {ids[k] : k \in 1..gd_i}
        /\ (gd_r_item' # gd_r_item /\ "data" \in DOMAIN gd_r_item'[1]) =>
               gd_r_item'[1].data.id = ids[gd_i']

AtMostOneOpen == ~(conn = "open" /\ gd_conn = "open")

\* gather_headers, gather_details has ended, by return or by exception
HeadersTerminated == pc \in {"done", "raised"}
DetailsTerminated == gd_pc \in {"done", "raised"}

\* C31: during a workflow at most one connection opened by the downloader is
\* open at a time, and when gather_headers or gather_details has terminated,
\* normally or by raising, the connection it opened is closed
C31_SinkHandleDiscipline ==
    /\ AtMostOneOpen
    /\ HeadersTerminated => conn # "open"
    /\ DetailsTerminated => gd_conn # "open"

\* the part of the discipline the code keeps: one connection at a time, closed
\* by every call that returns
C31_ClosedOnReturn ==
    /\ AtMostOneOpen
    /\ pc = "done" => conn # "open"
    /\ gd_pc = "done" => gd_conn # "open"

====
